---- MODULE Spec2Model ----
(***************************************************************************)
(* Model of the realtime client of mobility-toolbox-js:                    *)
(*   WebSocketAPI  (src/unnamed/part_006, lines 116-486): the socket       *)
(*                 transport and the channel multiplexer;                  *)
(*   RealtimeAPI   (src/unnamed/part_003): viewport state, keep-alive and  *)
(*                 reconnection on top of it.                              *)
(* The browser's WebSocket objects are modelled by their readyState and    *)
(* their registered event listeners; the browser delivers open, close and  *)
(* message events as separate steps.                                       *)
(***************************************************************************)
EXTENDS Integers, Sequences, FiniteSets, Bags, TLC

\* ------------------------------------------------------------------ bounds
\* Superseded WebSocket objects whose close event is still to come.
MaxStale == 1
\* Longest messagesOnOpen queue the environment builds up.
MaxPending == 3
\* SUB/DEL balance that is tracked exactly (see BalStep).
MaxBal == 1
\* Longest content list of an inbound buffer frame.
MaxContent == 2

\* Most request listeners on one socket.
MaxListeners == 2
\* Most records in the departure map.
MaxDepartures == 2

\* ------------------------------------------------------- program constants
PingIntervalMs == 10000
\* this.maxDepartureAge, in minutes
MaxDepartureAge == 30
ReconnectDefaultMs == 100

\* ------------------------------------------------------------ input values
Channels == {"c1", "c2"}
Handlers == {"h1", "h2"}
\* bbox values, written as the text bbox.join(' ') puts in the command; the
\* setter's JSON.stringify comparison distinguishes exactly these texts.
BBoxes == {"0 0 100 100", "0 0 200 200"}
Projections == {"EPSG:4326"}
Buffers == {"100 100", "50 50"}
DefaultBuffer == "100 100"
\* undefined
Undefined == ""
\* unsubscribe(source) called without a callback
NoCb == ""

\* RealtimeModes
Modes == {"topographic", "schematic"}

\* getModeSuffix(mode, RealtimeModes): the suffix of the channels of a
\* rendering mode, none for the topographic mode
GetModeSuffix(mode) == IF mode = "schematic" THEN "_schematic" ELSE ""

\* The one-shot queries of RealtimeAPI, and a promise nobody asked for yet.
Queries == {"getStation", "getFullTrajectory", "getStopSequence"}
NoPromise == [st |-> "none", val |-> "none"]

\* get(params, cb, errorCb): params is {channel, args, id}; an absent args
\* or id is Undefined
ReqArgs == {Undefined, "a"}
ReqIds == {Undefined, "7"}
Params == [channel : {"c1"}, args : ReqArgs, id : ReqIds]
\* The callback listen() is given by get(): once(cb), a new function that
\* is no handler of the caller
OnceWrapper == "once"

Msg(verb, arg) == [verb |-> verb, arg |-> arg]

\* The source a listener compares a frame's source with (listen): the
\* channel, then a space and the args when there are args
Key(p) == IF p.args # Undefined THEN p.channel \o " " \o p.args ELSE p.channel

\* getRequestString(method, params) after the method: the key, then a space
\* and the id when there is an id
RequestArg(p) == IF p.id # Undefined THEN Key(p) \o " " \o p.id ELSE Key(p)

VARIABLES
  websocket,          \* WebSocketAPI.websocket: [rs, onclose, openL, clr, msgL, reqL,
                      \* errL]; rs is "NONE" when the field is null
  stale,              \* the sockets close() was called on and whose close event
                      \* has not come yet: the bag of their close listeners
                      \* [onclose, clr, errL]
  messagesOnOpen,     \* WebSocketAPI.messagesOnOpen
  subscriptions,      \* WebSocketAPI.subscriptions
  subscribed,         \* WebSocketAPI.subscribed: the keys whose value is true
  requests,           \* WebSocketAPI.requests
  promise,            \* per one-shot query of RealtimeAPI, the promise it returned
  departureObject,    \* the departure map of subscribeDepartures: its records in
                      \* the order of their keys (Object.keys)
  departureArray,     \* what the last filterDepartures() returned
  subscribedStationUic,   \* RealtimeAPI.subscribedStationUic
  departureUpdateTimeout, \* RealtimeAPI.departureUpdateTimeout: [armed,
                          \* sortByMinArrivalTime], the timer and what its closure holds
  projection,         \* RealtimeAPI projection (closure variable of defineProperties)
  bbox,               \* RealtimeAPI bbox
  buffer,             \* RealtimeAPI buffer
  pingInterval,       \* RealtimeAPI.pingInterval is armed
  reconnectTimeout,   \* RealtimeAPI.reconnectTimeout is armed
  reconnectTimeoutMs, \* RealtimeAPI.reconnectTimeoutMs
  asked,              \* history: messages given to send() while the current socket was connecting
  bboxSet,            \* history: the bbox setter ran since the socket was last open
  clientClosed,       \* history: the client's last lifecycle call was close()
  gen,                \* history: "none", "first" or "later": which socket the current one is
  unsubscribed,       \* history: the [channel, cb] whose last call was unsubscribe
  bal,                \* history: per channel, SUBs minus DELs given to send()
  ev,                 \* history: what the last step did
  layer,              \* the tracker layer (TrackerLayerMixin): its fields and its
                      \* closure variables, and which of its timers are pending
  tracker,            \* layer.tracker, the Tracker; exists is FALSE when the field is null
  wallClock,          \* Date.now()
  tev                 \* history: what the layer's last step did

vars == <<websocket, stale, messagesOnOpen, subscriptions, subscribed, requests, promise,
          departureObject, departureArray, subscribedStationUic, departureUpdateTimeout,
          projection, bbox, buffer, pingInterval, reconnectTimeout, reconnectTimeoutMs,
          asked, bboxSet, clientClosed, gen, unsubscribed, bal, ev,
          layer, tracker, wallClock, tev>>

clientVars == <<websocket, stale, messagesOnOpen, subscriptions, subscribed, requests, promise,
                departureObject, departureArray, subscribedStationUic,
                departureUpdateTimeout,
                projection, bbox, buffer, pingInterval, reconnectTimeout, reconnectTimeoutMs,
                asked, bboxSet, clientClosed, gen, unsubscribed, bal, ev>>

layerVars == <<layer, tracker, wallClock, tev>>

\* this.websocket = null
NoSocket == [rs |-> "NONE", onclose |-> FALSE, openL |-> <<>>, clr |-> FALSE, msgL |-> {},
             reqL |-> <<>>, errL |-> <<>>]

\* What a step records about itself.
NoEv == [op |-> "init", channel |-> "", cb |-> "", quiet |-> FALSE,
         issued |-> <<>>, wire |-> <<>>, nonQuietBefore |-> 0,
         asked |-> {}, bboxSet |-> FALSE,
         entryBefore |-> FALSE, reopen |-> FALSE,
         current |-> FALSE, byClient |-> FALSE, armed |-> FALSE,
         newSocket |-> FALSE,
         frame |-> [form |-> "frame", source |-> "", content |-> <<>>, body |-> "absent",
                    client_reference |-> ""],
         delivered |-> {}, calls |-> <<>>, errCalls |-> <<>>, threw |-> FALSE,
         sortByMinArrivalTime |-> FALSE, ids |-> <<>>]

\* The state the methods read and write, as one record.
State == [websocket |-> websocket, stale |-> stale,
          messagesOnOpen |-> messagesOnOpen, subscriptions |-> subscriptions,
          subscribed |-> subscribed, requests |-> requests, promise |-> promise,
          departureObject |-> departureObject, departureArray |-> departureArray,
          subscribedStationUic |-> subscribedStationUic,
          departureUpdateTimeout |-> departureUpdateTimeout,
          projection |-> projection, bbox |-> bbox, buffer |-> buffer,
          pingInterval |-> pingInterval, reconnectTimeout |-> reconnectTimeout,
          reconnectTimeoutMs |-> reconnectTimeoutMs,
          asked |-> asked, bboxSet |-> bboxSet, gen |-> gen,
          issued |-> <<>>, wire |-> <<>>, armed |-> FALSE, newSocket |-> FALSE,
          calls |-> <<>>, errCalls |-> <<>>, threw |-> FALSE,
          ret |-> 0]

Range(s) == {s[i] : i \in DOMAIN s}

Min(S) == CHOOSE n \in S : \A m \in S : n <= m

\* ------------------------------------------------ WebSocketAPI: the socket
\* The getters open, closed, connecting (defineProperties).
IsNull(w) == w.websocket.rs = "NONE"
IsOpen(w) == w.websocket.rs = "OPEN"
IsClosed(w) == w.websocket.rs = "CLOSED"
IsConnecting(w) == w.websocket.rs = "CONNECTING"

\* The two kinds of 'open' listener the code registers.
ConnectListener == [kind |-> "connect", msg |-> Msg("", "")]
FlushListener(m) == [kind |-> "flush", msg |-> m]

\* The close listeners of the sockets whose close event is still to come.
StaleKinds == BagToSet(stale)
StaleCount(w) == BagCardinality(w.stale)

\* Listeners of events a socket can no longer fire are dropped: a closed
\* socket fires nothing more.
Settle(sock) ==
  IF sock.rs = "CLOSED"
  THEN [sock EXCEPT !.openL = <<>>, !.msgL = {}, !.clr = FALSE, !.onclose = FALSE,
                    !.reqL = <<>>, !.errL = <<>>]
  ELSE sock

\* The listeners of a socket the client has let go of: removeEvents cannot
\* reach them any more, so which closure each is (lid) no longer matters.
Detached(listeners) == [i \in DOMAIN listeners |-> [listeners[i] EXCEPT !.lid = 0]]

\* websocket.close() on the current socket, which the caller then lets go
\* of: a connecting or open socket starts closing and its close event comes
\* later, as a step of its own, with the close listeners it had.
Supersede(w) ==
  IF w.websocket.rs \in {"CONNECTING", "OPEN"}
  THEN [w EXCEPT !.stale = @ (+) SetToBag({[onclose |-> w.websocket.onclose,
                                             clr |-> w.websocket.clr,
                                             errL |-> Detached(w.websocket.errL)]}),
                 !.websocket = NoSocket]
  ELSE [w EXCEPT !.websocket = NoSocket]

\* send(message)
WsSend(w, m) ==
  LET w1 == [w EXCEPT !.issued = Append(@, m)] IN
  IF IsNull(w) THEN w1
  ELSE IF ~IsOpen(w) THEN
    IF m \notin Range(w.messagesOnOpen)
    THEN [w1 EXCEPT !.messagesOnOpen = Append(@, m),
                    !.websocket.openL = Append(@, FlushListener(m)),
                    !.websocket.clr = TRUE,
                    !.asked = IF IsConnecting(w) THEN @ \cup {m} ELSE @]
    ELSE [w1 EXCEPT !.asked = IF IsConnecting(w) THEN @ \cup {m} ELSE @]
  ELSE IF m \notin Range(w.messagesOnOpen) THEN [w1 EXCEPT !.wire = Append(@, m)]
  ELSE w1

\* close() that leaves the close handler on the socket
WsCloseKeepsOnclose(w) ==
  IF ~IsNull(w)
  THEN [Supersede(w) EXCEPT !.messagesOnOpen = <<>>]
  ELSE w

\* close()
WsClose(w) ==
  IF ~IsNull(w)
  THEN [Supersede([w EXCEPT !.websocket.onclose = FALSE]) EXCEPT !.messagesOnOpen = <<>>]
  ELSE w

\* connect(url, onOpen): new WebSocket(url) is in the CONNECTING state, so
\* the 'open' listener is registered (the else branch needs a socket that is
\* open as soon as it is constructed).
WsConnect(w) ==
  LET w1 == IF ~IsNull(w) /\ ~IsClosed(w) THEN Supersede(w) ELSE w
  IN [w1 EXCEPT !.websocket = [NoSocket EXCEPT !.rs = "CONNECTING",
                                               !.openL = <<ConnectListener>>],
                !.asked = {},
                !.gen = IF @ = "none" THEN "first" ELSE "later",
                !.newSocket = TRUE]

\* ------------------------------------------- WebSocketAPI: the multiplexer
\* addEvents(onMessage): the closure lid is registered for 'message'.
AddEvents(w, l) ==
  IF ~IsNull(w) THEN [w EXCEPT !.websocket.msgL = @ \cup {l}] ELSE w

\* removeEvents(onMessage), for a set of closures
RemoveEvents(w, lids) ==
  IF ~IsNull(w)
  THEN [w EXCEPT !.websocket.msgL = {l \in @ : l.lid \notin lids}]
  ELSE w

\* removeEvents(onMessageCb, onErrorCb) for the closures of a set of requests
RemoveRequestEvents(w, lids) ==
  LET Keep(l) == l.lid \notin lids IN
  IF ~IsNull(w)
  THEN [w EXCEPT !.websocket.reqL = SelectSeq(@, Keep), !.websocket.errL = SelectSeq(@, Keep)]
  ELSE w

\* unlisten(params, cb): over the subscriptions and the requests
Unlisten(w, channel, cb) ==
  LET w1 == RemoveEvents(w, {w.subscriptions[i].lid : i \in
                {j \in DOMAIN w.subscriptions :
                   w.subscriptions[j].channel = channel
                   /\ (cb = NoCb \/ w.subscriptions[j].cb = cb)}})
  IN RemoveRequestEvents(w1, {w.requests[i].lid : i \in
                {j \in DOMAIN w.requests :
                   w.requests[j].channel = channel
                   /\ (cb = NoCb \/ w.requests[j].cb = cb)}})

\* The closures in use; a new closure is none of them.
UsedLids(w) ==
  {w.subscriptions[i].lid : i \in DOMAIN w.subscriptions}
  \cup {l.lid : l \in w.websocket.msgL}

FreshLid(w) == Min({n \in 1..(Cardinality(UsedLids(w)) + 1) : n \notin UsedLids(w)})

\* The params of a subscription to a channel without argument
ChannelParams(channel) == [channel |-> channel, args |-> Undefined, id |-> Undefined]

\* listen() that does not remove the previous identical callback
ListenNoUnlisten(w, params, cb) ==
  LET lid == FreshLid(w)
  IN [AddEvents(w, [lid |-> lid, channel |-> Key(params), cb |-> cb]) EXCEPT !.ret = lid]

\* listen(params, cb): ret is the new onMessage closure, whose source (the
\* listener's channel field) is params.channel followed by params.args;
\* the environment subscribes without an id
Listen(w, params, cb) ==
  LET w1 == Unlisten(w, params.channel, cb)
      lid == FreshLid(w1)
  IN [AddEvents(w1, [lid |-> lid, channel |-> Key(params), cb |-> cb]) EXCEPT !.ret = lid]

\* subscribe(params, cb, errorCb, quiet); an entry keeps params as its
\* fields channel, args and id
WsSubscribe(w, params, cb, quiet) ==
  LET w1 == Listen(w, params, cb)
      reqStr == RequestArg(params)
      index == {i \in DOMAIN w1.subscriptions :
                  w1.subscriptions[i].channel = params.channel /\ w1.subscriptions[i].cb = cb}
      newSubscr == [channel |-> params.channel, args |-> params.args, id |-> params.id,
                    cb |-> cb, quiet |-> quiet, lid |-> w1.ret]
      w2 == [w1 EXCEPT !.subscriptions =
                IF index # {} THEN [@ EXCEPT ![Min(index)] = newSubscr]
                ELSE Append(@, newSubscr)]
  IN IF reqStr \notin w2.subscribed
     THEN LET w3 == IF ~quiet
                    THEN WsSend(WsSend(w2, Msg("GET", reqStr)), Msg("SUB", reqStr))
                    ELSE w2
          IN [w3 EXCEPT !.subscribed = @ \cup {reqStr}]
     ELSE w2

\* unsubscribe() that leaves the message listeners on the socket
WsUnsubscribeKeepsListeners(w, source, cb) ==
  LET Hit(s) == s.channel = source /\ (cb = NoCb \/ s.cb = cb)
      Keep(s) == s.channel # source \/ (cb # NoCb /\ s.cb # cb)
      toRemove == SelectSeq(w.subscriptions, Hit)
      w2 == [w EXCEPT !.subscriptions = SelectSeq(@, Keep)]
  IN IF /\ source \in w2.subscribed
        /\ ~\E i \in DOMAIN w2.subscriptions : w2.subscriptions[i].channel = source
        /\ \E i \in DOMAIN toRemove : ~toRemove[i].quiet
     THEN [WsSend(w2, Msg("DEL", source)) EXCEPT !.subscribed = @ \ {source}]
     ELSE w2

\* unsubscribe(source, cb)
WsUnsubscribe(w, source, cb) ==
  LET Hit(s) == s.channel = source /\ (cb = NoCb \/ s.cb = cb)
      Keep(s) == s.channel # source \/ (cb # NoCb /\ s.cb # cb)
      toRemove == SelectSeq(w.subscriptions, Hit)
      w1 == RemoveEvents(w, {toRemove[i].lid : i \in DOMAIN toRemove})
      w2 == [w1 EXCEPT !.subscriptions = SelectSeq(@, Keep)]
  IN IF /\ source \in w2.subscribed
        /\ ~\E i \in DOMAIN w2.subscriptions : w2.subscriptions[i].channel = source
        /\ \E i \in DOMAIN toRemove : ~toRemove[i].quiet
     THEN [WsSend(w2, Msg("DEL", source)) EXCEPT !.subscribed = @ \ {source}]
     ELSE w2

\* RealtimeAPI.subscribe(channel, onSuccess, onError, quiet)
RtSubscribe(w, channel, cb, quiet) == WsSubscribe(w, ChannelParams(channel), cb, quiet)

\* The channel of a stream in a rendering mode
ModeChannel(stream, mode) == stream \o GetModeSuffix(mode)

RtUnsubscribeAllCallbacks(w, channel, suffix, cb) ==
  WsUnsubscribe(WsUnsubscribe(w, ModeChannel(channel, "schematic") \o suffix, NoCb),
                ModeChannel(channel, "topographic") \o suffix, NoCb)

\* RealtimeAPI.unsubscribe(channel, suffix, cb): the channel of the schematic
\* mode, then that of the topographic mode
RtUnsubscribe(w, channel, suffix, cb) ==
  WsUnsubscribe(WsUnsubscribe(w, ModeChannel(channel, "schematic") \o suffix, cb),
                ModeChannel(channel, "topographic") \o suffix, cb)

\* unsubscribeTrajectory(cb)
RtUnsubscribeTrajectory(w, cb) == RtUnsubscribe(w, "trajectory", "", cb)

\* subscribeTrajectory(mode, onMessage, quiet)
RtSubscribeTrajectory(w, mode, onMessage, quiet) ==
  RtSubscribe(RtUnsubscribeTrajectory(w, onMessage),
              ModeChannel("trajectory", mode), onMessage, quiet)

\* unsubscribeStations(cb); stationUpdateTimeout, which it clears, belongs
\* to getStations and is not part of the state
RtUnsubscribeStations(w, cb) == RtUnsubscribe(w, "station", "", cb)

\* The callback subscribeStations() subscribes: a closure around onMessage,
\* made by the call
StationWrapper(onMessage) == "wrap " \o onMessage

\* subscribeStations(mode, onMessage): unsubscribeStations() without a
\* callback comes first
RtSubscribeStations(w, mode, onMessage) ==
  RtSubscribe(RtUnsubscribeStations(w, NoCb),
              ModeChannel("station", mode), StationWrapper(onMessage), FALSE)

\* The message callback subscribeDepartures() subscribes: a closure made by
\* the call, around the channel, a new departure map, sortByMinArrivalTime
\* and onMessage
DeparturesCallback(sortByMinArrivalTime) ==
  IF sortByMinArrivalTime THEN "departures by arrival" ELSE "departures"

\* unsubscribeDepartures(cb), no callback given
RtUnsubscribeDepartures(w) ==
  IF w.subscribedStationUic # Undefined
  THEN [RtUnsubscribe(w, "timetable_" \o w.subscribedStationUic, "", NoCb)
          EXCEPT !.subscribedStationUic = Undefined]
  ELSE w

\* subscribeDepartures(stationId, sortByMinArrivalTime, onMessage)
RtSubscribeDepartures(w, stationId, sortByMinArrivalTime) ==
  LET w1 == RtUnsubscribeDepartures([w EXCEPT !.departureUpdateTimeout.armed = FALSE])
  IN RtSubscribe([w1 EXCEPT !.subscribedStationUic = stationId, !.departureObject = <<>>],
                 "timetable_" \o stationId, DeparturesCallback(sortByMinArrivalTime), FALSE)

\* The message callback of subscribeDepartures, called with a frame of its
\* channel: the content is put into the departure map under its call_id,
\* the timer is cleared and set anew
DeparturesOnMessage(w, content, sortByMinArrivalTime) ==
  [w EXCEPT !.departureObject = <<content>>,
            !.departureUpdateTimeout = [armed |-> TRUE,
                                        sortByMinArrivalTime |-> sortByMinArrivalTime]]

\* The closures of get() in use; a new closure is none of them.
UsedReqLids(w) ==
  {w.requests[i].lid : i \in DOMAIN w.requests}
  \cup {l.lid : l \in Range(w.websocket.reqL)} \cup {l.lid : l \in Range(w.websocket.errL)}

FreshReqLid(w) == Min({n \in 1..(Cardinality(UsedReqLids(w)) + 1) : n \notin UsedReqLids(w)})

\* findIndex over the requests: same requestString and same cb
RequestIndex(w, p, cb) ==
  {i \in DOMAIN w.requests : RequestArg(w.requests[i]) = RequestArg(p) /\ w.requests[i].cb = cb}

\* get(params, cb, errorCb): listen() is called with once(cb) and once(errorCb),
\* two closures made by this call (lid); once(errorCb) is a function whether
\* or not errorCb was given, so addEvents registers it for 'error' and 'close'.
WsGet(w, p, cb, errorCb) ==
  LET w1 == WsSend(w, Msg("GET", RequestArg(p)))
      w2 == Unlisten(w1, p.channel, OnceWrapper)
      newReq == [channel |-> p.channel, args |-> p.args, id |-> p.id,
                 cb |-> cb, errorCb |-> errorCb, lid |-> FreshReqLid(w2)]
      w3 == IF ~IsNull(w2)
            THEN [w2 EXCEPT !.websocket.reqL = Append(@, newReq),
                            !.websocket.errL = Append(@, newReq)]
            ELSE w2
      index == RequestIndex(w3, p, cb)
  IN [w3 EXCEPT !.requests = IF index # {} THEN [@ EXCEPT ![Min(index)] = newReq]
                             ELSE Append(@, newReq)]

\* subscribePreviousSubscriptions(): the forEach over the copy of the list
RECURSIVE Resubscribe(_, _, _)
Resubscribe(w, list, i) ==
  IF i > Len(list) THEN w
  ELSE Resubscribe(WsSubscribe(w, [channel |-> list[i].channel, args |-> list[i].args,
                                   id |-> list[i].id], list[i].cb, list[i].quiet),
                   list, i + 1)

SubscribePreviousSubscriptions(w) ==
  Resubscribe([w EXCEPT !.subscribed = {}], w.subscriptions, 1)

\* ------------------------------------------------------------- RealtimeAPI
\* onOpen(): an array (buffer is never unset) is truthy
RtOnOpen(w) ==
  LET w1 == IF w.projection # Undefined THEN WsSend(w, Msg("PROJECTION", w.projection)) ELSE w
      w2 == IF w1.bbox # Undefined THEN WsSend(w1, Msg("BBOX", w1.bbox)) ELSE w1
      w3 == WsSend(w2, Msg("BUFFER", w2.buffer))
  IN IF PingIntervalMs # 0 THEN [w3 EXCEPT !.pingInterval = TRUE] ELSE w3

\* onClose() that clears the timers and sets none
RtOnCloseNoReconnect(w) ==
  [w EXCEPT !.pingInterval = FALSE, !.reconnectTimeout = FALSE]

\* onClose()
RtOnClose(w) ==
  LET w1 == [w EXCEPT !.pingInterval = FALSE, !.reconnectTimeout = FALSE]
  IN IF w.reconnectTimeoutMs # 0
     THEN [w1 EXCEPT !.reconnectTimeout = TRUE, !.armed = TRUE]
     ELSE w1

\* close()
RtClose(w) == WsClose(w)

\* open()
RtOpen(w) ==
  LET w1 == WsConnect(RtClose(w))
  IN [w1 EXCEPT !.websocket.onclose = TRUE]

\* The listeners of one 'open' event, in the order they were registered:
\* connect's listener, then one per queued message (send).
RECURSIVE DispatchOpen(_, _, _)
DispatchOpen(w, listeners, i) ==
  IF i > Len(listeners) THEN w
  ELSE LET l == listeners[i]
           w1 == IF l.kind = "connect"
                 THEN SubscribePreviousSubscriptions(RtOnOpen(w))
                 ELSE [w EXCEPT !.messagesOnOpen = <<>>, !.wire = Append(@, l.msg)]
       IN DispatchOpen(w1, listeners, i + 1)

\* The listeners of one 'close' event of a socket that had the close
\* listeners k: the onclose handler, set right after construction, then the
\* listeners send() added.
\* The frame a callback was given: pos 0 is the payload itself, pos i the
\* i-th inner frame of a buffer.
FrameAt(frame, pos) ==
  IF pos = 0 THEN [source |-> frame.source, client_reference |-> frame.client_reference,
                   body |-> frame.body]
  ELSE frame.content[pos]

\* resolve(v) and reject(): only the first of them settles a promise
Resolve(p, q, v) ==
  IF p[q].st = "pending" THEN [p EXCEPT ![q] = [st |-> "resolved", val |-> v]] ELSE p

Reject(p, q) ==
  IF p[q].st = "pending" THEN [p EXCEPT ![q] = [st |-> "rejected", val |-> "none"]] ELSE p

\* The message callbacks the one-shot queries give to wsApi.get(), applied
\* to a frame whose content is body. if (data.content) holds for an empty
\* list; data.content.length does not.
QueryCallback(p, q, body) ==
  CASE q = "getStation" ->
         IF body # "absent" THEN Resolve(p, q, body) ELSE Reject(p, q)
    [] q = "getFullTrajectory" ->
         IF body # "absent" THEN Resolve(p, q, body) ELSE p
    [] q = "getStopSequence" ->
         Resolve(IF body = "data" THEN Resolve(p, q, "data") ELSE p, q, "empty")
    [] OTHER -> p

\* The error callback getStopSequence gives to wsApi.get(): reject(err)
QueryErrorCallback(p, q) == IF q = "getStopSequence" THEN Reject(p, q) ELSE p

RECURSIVE RunCallbacks(_, _, _, _)
RunCallbacks(p, calls, frame, i) ==
  IF i > Len(calls) THEN p
  ELSE RunCallbacks(QueryCallback(p, calls[i].cb, FrameAt(frame, calls[i].pos).body),
                    calls, frame, i + 1)

RECURSIVE RunErrorCallbacks(_, _, _)
RunErrorCallbacks(p, errCalls, i) ==
  IF i > Len(errCalls) THEN p
  ELSE RunErrorCallbacks(QueryErrorCallback(p, errCalls[i]), errCalls, i + 1)

\* The callbacks called in a step are closures of their callers: what they
\* do to the promises is part of the step.
WithCallbacks(w, frame) ==
  [w EXCEPT !.promise = RunErrorCallbacks(RunCallbacks(@, w.calls, frame, 1), w.errCalls, 1)]

\* The end of once(callback): the request of this requestString and cb is
\* looked up, its listeners are removed from the current socket and it is
\* spliced out; with no such request, this.requests[-1] is undefined and
\* destructuring it raises a TypeError.
OnceDone(w, l) ==
  LET index == RequestIndex(w, l, l.cb) IN
  IF index = {} THEN [w EXCEPT !.threw = TRUE]
  ELSE LET i == Min(index)
           w1 == RemoveRequestEvents(w, {w.requests[i].lid})
       IN [w1 EXCEPT !.requests = SubSeq(@, 1, i - 1) \o SubSeq(@, i + 1, Len(@))]

\* once(errorCb) as a listener of 'close': callback(...args) raises a
\* TypeError when no errorCb was given.
OnRequestError(w, l) ==
  IF l.errorCb = NoCb THEN [w EXCEPT !.threw = TRUE]
  ELSE OnceDone([w EXCEPT !.errCalls = Append(@, l.errorCb)], l)

\* The once(errorCb) listeners of one 'close' event, in the order they were
\* registered; a listener removed from the socket meanwhile is not called
\* (lid 0: a socket removeEvents cannot reach).
RECURSIVE DispatchError(_, _, _)
DispatchError(w, listeners, i) ==
  IF i > Len(listeners) THEN w
  ELSE LET l == listeners[i]
           attached == l.lid = 0 \/ \E x \in Range(w.websocket.errL) : x.lid = l.lid
       IN DispatchError(IF attached THEN OnRequestError(w, l) ELSE w, listeners, i + 1)

DispatchClose(w, k) ==
  LET w1 == IF k.onclose THEN RtOnClose(w) ELSE w
      w2 == IF k.clr THEN [w1 EXCEPT !.messagesOnOpen = <<>>] ELSE w1
  IN DispatchError(w2, k.errL, 1)

\* The onMessage closure of listen(): how often it calls cb for a frame.
\* A frame is the payload of a 'message' event, [form, source, content,
\* client_reference]. form "frame": JSON of an object; the content of a
\* buffer frame lists its inner frames, each [source, client_reference,
\* body] (NullItem for a null element, whose content?.source is undefined);
\* body says what the content of a frame that is no buffer is: "absent"
\* (null or no such key), "empty" (an empty list) or "data".
\* form "text": not JSON, data stays {}. form "null": the JSON null.
\* form "nolist": a buffer frame whose content is not an array.
ContentsNotRedispatched(frame) ==
  <<[source |-> frame.source, client_reference |-> frame.client_reference,
     body |-> frame.body]>>

NullItem == [source |-> Undefined, client_reference |-> Undefined, body |-> "absent"]

Contents(frame) ==
  IF frame.source = "buffer" THEN frame.content
  ELSE <<[source |-> frame.source, client_reference |-> frame.client_reference,
          body |-> frame.body]>>

\* data.source on null, or forEach on what is not an array: a TypeError
Throws(frame) == frame.form \in {"null", "nolist"}

\* What contents.forEach passes on for a listener of this key and id, in
\* order: pos 0 is the frame itself, pos i the i-th inner frame of a buffer.
Hits(key, id, frame) ==
  LET n == Len(Contents(frame))
      items == [i \in 1..n |-> [pos |-> IF frame.source = "buffer" THEN i ELSE 0,
                                source |-> Contents(frame)[i].source]]
      Hit(x) == x.source = key /\ (id = Undefined \/ id = frame.client_reference)
  IN IF Throws(frame) THEN <<>> ELSE SelectSeq(items, Hit)

\* The onMessage closure of a get(): cb is once(cb)
RECURSIVE ForEachHit(_, _, _, _)
ForEachHit(w, l, hits, i) ==
  IF i > Len(hits) THEN w
  ELSE LET w1 == OnceDone([w EXCEPT !.calls = Append(@, [cb |-> l.cb, pos |-> hits[i].pos, channel |-> l.channel,
                                                     args |-> l.args, id |-> l.id])], l)
       IN IF w1.threw THEN w1 ELSE ForEachHit(w1, l, hits, i + 1)

OnRequestMessage(w, l, frame) ==
  IF Throws(frame) THEN [w EXCEPT !.threw = TRUE]
  ELSE LET w1 == ForEachHit([w EXCEPT !.threw = FALSE], l, Hits(Key(l), l.id, frame), 1)
       IN [w1 EXCEPT !.threw = @ \/ w.threw]

\* The onMessage closures of the requests for one 'message' event, in the
\* order they were registered; a listener removed meanwhile is not called.
RECURSIVE DispatchMessage(_, _, _, _)
DispatchMessage(w, listeners, frame, i) ==
  IF i > Len(listeners) THEN w
  ELSE LET l == listeners[i]
           attached == \E x \in Range(w.websocket.reqL) : x.lid = l.lid
       IN DispatchMessage(IF attached THEN OnRequestMessage(w, l, frame) ELSE w,
                          listeners, frame, i + 1)

Matches(l, frame) == Len(Hits(l.channel, Undefined, frame))

OnMessage(w, frame) ==
  LET L == w.websocket.msgL
      Pairs == {[channel |-> l.channel, cb |-> l.cb] : l \in L}
      Calls(p) == LET Ls == {l \in L : l.channel = p.channel /\ l.cb = p.cb}
                  IN Cardinality(Ls) * Matches(p, frame)
  IN {[channel |-> p.channel, cb |-> p.cb, n |-> Calls(p),
       at |-> [i \in DOMAIN Hits(p.channel, Undefined, frame) |->
                 Hits(p.channel, Undefined, frame)[i].pos]]
      : p \in {q \in Pairs : Calls(q) > 0}}

\* ---------------------------------------------------------- filterDepartures
\* A departure is [time, arrival, state, platform, to, line, cancelled]:
\* time and arrival in milliseconds after now (new Date()), to the first
\* destination (to[0]), line the line's name.
AgeMs == MaxDepartureAge * 60000

\* compareDepartures(a, b, sortByMinArrivalTime): by the time, or by the
\* earlier of arrival and time when sortByMinArrivalTime is set
SortTime(d, sortByMinArrivalTime) ==
  IF sortByMinArrivalTime /\ d.arrival < d.time THEN d.arrival ELSE d.time

CompareDepartures(a, b, sortByMinArrivalTime) ==
  SortTime(a, sortByMinArrivalTime) - SortTime(b, sortByMinArrivalTime)

\* departures.sort(...): the keys of the map in sorted order; Array.sort is
\* stable, so records that compare equal keep the order of the keys
Sorted(obj, sortByMinArrivalTime) ==
  LET Before(i, j) == LET c == CompareDepartures(obj[i], obj[j], sortByMinArrivalTime)
                      IN c < 0 \/ (c = 0 /\ i < j)
      Place(i) == 1 + Cardinality({j \in DOMAIN obj : Before(j, i)})
  IN [r \in DOMAIN obj |-> CHOOSE i \in DOMAIN obj : Place(i) = r]

LoopOrderAscending(n) == [k \in 1..n |-> k]

\* for (let i = departures.length - 1; i >= 0; i -= 1)
LoopOrder(n) == [k \in 1..n |-> n - k + 1]

InWindowAlways(t) == TRUE

\* t > past && t < future
InWindow(t) == t > 0 - AgeMs /\ t < AgeMs

\* One round of the loop, for the record with key id. s is [obj,
\* departureArray, platformsBoarding, previousDeparture] (previousDeparture
\* a key, 0 for null); the records are changed in place, in the map.
FilterOne(s, id) ==
  LET d == s.obj[id]
      t == d.time
      hiddenByPlatform == d.state = "BOARDING" /\ d.platform \in s.platformsBoarding
      state1 == IF hiddenByPlatform THEN "HIDDEN" ELSE d.state
      prev == IF s.previousDeparture = 0 THEN d ELSE s.obj[s.previousDeparture]
      diff == IF t >= prev.time THEN t - prev.time ELSE prev.time - t
      hiddenByPrevious == /\ s.previousDeparture # 0
                          /\ d.to = prev.to
                          /\ diff < 1000
                          /\ d.line = prev.line
      state2 == IF hiddenByPrevious THEN "HIDDEN" ELSE state1
      d2 == [d EXCEPT !.state = state2,
                      !.cancelled = @ \/ state2 \in {"STOP_CANCELLED", "JOURNEY_CANCELLED"},
                      !.time = t]
  IN IF InWindow(t)
     THEN [obj |-> [s.obj EXCEPT ![id] = d2],
           departureArray |-> <<id>> \o s.departureArray,
           platformsBoarding |-> IF d.state = "BOARDING"
                                 THEN s.platformsBoarding \cup {d.platform}
                                 ELSE s.platformsBoarding,
           previousDeparture |-> id]
     ELSE s

RECURSIVE FilterLoop(_, _, _)
FilterLoop(s, order, k) ==
  IF k > Len(order) THEN s ELSE FilterLoop(FilterOne(s, order[k]), order, k + 1)

\* filterDepartures(depObject, sortByMinArrivalTime): the changed map and
\* the array returned, whose elements are records of the map
FilterDepartures(depObject, sortByMinArrivalTime) ==
  LET departures == Sorted(depObject, sortByMinArrivalTime)
      order == LoopOrder(Len(departures))
      s == FilterLoop([obj |-> depObject, departureArray |-> <<>>,
                       platformsBoarding |-> {}, previousDeparture |-> 0],
                      [k \in DOMAIN order |-> departures[order[k]]], 1)
  IN [depObject |-> s.obj,
      departureArray |-> [k \in DOMAIN s.departureArray |-> s.obj[s.departureArray[k]]],
      ids |-> s.departureArray]

\* ------------------------------------------------------------------ Tracker
\* Arc fractions and time fractions are counted in units of 1/FracUnit.
FracUnit == 4

\* layer.tracker is null
NoTracker ==
  [exists |-> FALSE, trajectories |-> <<>>, renderedTrajectories |-> <<>>,
   interpolate |-> TRUE, hoverVehicleId |-> "null", filter |-> Undefined,
   sort |-> Undefined, pixelRatio |-> Undefined, width |-> 0,
   visibility |-> "visible", canvas |-> {}]

\* new Tracker(options): of the options the constructor reads interpolate,
\* getPixelFromCoordinate, canvas, width and height; filter, sort and
\* pixelRatio are fields it does not set, hoverVehicleId is set to null
NewTracker(opts) ==
  [NoTracker EXCEPT !.exists = TRUE,
                    !.interpolate = IF opts.interpolate = Undefined THEN TRUE ELSE opts.interpolate,
                    !.width = opts.width]

\* A filter function of the caller: "f1" keeps every vehicle but v2
ApplyFilter(f, traj) == f = "f1" => traj.id # "v2"

GetFirstCoordinateGivesLast(geometry) == geometry.coordinates[Len(geometry.coordinates)]

\* geometry.getFirstCoordinate() / getCoordinate()
GetFirstCoordinate(geometry) == geometry.coordinates[1]

\* geometry.getLastCoordinate()
GetLastCoordinate(geometry) == geometry.coordinates[Len(geometry.coordinates)]

\* The number that is not a number: 0 / 0, and what arithmetic on it gives
NaN == -1

\* geometry.getCoordinateAt(fraction) on a straight line, the fraction given
\* as numerator and denominator; the fraction 0 / 0 gives NaN
GetCoordinateAt(geometry, num, den) ==
  IF den = 0 THEN NaN
  ELSE GetFirstCoordinate(geometry)
         + (num * (GetLastCoordinate(geometry) - GetFirstCoordinate(geometry))) \div den

\* The search of the time interval: the first j with start <= now <= end;
\* when there is none, start and end are null and rotation is the one of
\* the last start examined
SearchInterval(timeIntervals, now) ==
  LET n == Len(timeIntervals)
      hits == {j \in 1..(n - 1) : /\ timeIntervals[j].time <= now
                                  /\ now <= timeIntervals[j + 1].time}
  IN IF hits # {}
     THEN [found |-> timeIntervals[Min(hits)].time # 0 /\ timeIntervals[Min(hits) + 1].time # 0,
           j |-> Min(hits), rotation |-> timeIntervals[Min(hits)].rotation]
     ELSE [found |-> FALSE, j |-> n - 1,
           rotation |-> IF n > 1 THEN timeIntervals[n - 1].rotation ELSE Undefined]

\* The position once the interval is searched (s): the branches on the
\* geometry's type and on start, end and now
PositionAt(tr, traj, now, s) ==
  LET n == Len(traj.timeIntervals)
      start == traj.timeIntervals[s.j]
      end == traj.timeIntervals[s.j + 1]
  IN IF traj.geometry.type = "Point"
     THEN [coord |-> {GetFirstCoordinate(traj.geometry)}, written |-> TRUE,
           rotation |-> s.rotation, endFraction |-> 0]
     ELSE IF s.found
     THEN [coord |-> {IF tr.interpolate
                      THEN GetCoordinateAt(traj.geometry,
                             (now - start.time) * (end.frac - start.frac)
                               + start.frac * (end.time - start.time),
                             FracUnit * (end.time - start.time))
                      ELSE GetFirstCoordinate(traj.geometry)},
           written |-> TRUE, rotation |-> s.rotation,
           endFraction |-> IF ~tr.interpolate THEN 0
                           ELSE IF end.time = start.time THEN 0   \* NaN || 0
                           ELSE Min({((now - start.time) * FracUnit) \div (end.time - start.time),
                                     FracUnit})]
     ELSE IF now < traj.timeIntervals[1].time
     THEN [coord |-> {GetFirstCoordinate(traj.geometry)}, written |-> TRUE,
           rotation |-> traj.timeIntervals[1].rotation, endFraction |-> 0]
     ELSE IF now > traj.timeIntervals[n].time
     THEN [coord |-> {GetLastCoordinate(traj.geometry)}, written |-> TRUE,
           rotation |-> traj.timeIntervals[n].rotation, endFraction |-> FracUnit]
     ELSE [coord |-> {}, written |-> TRUE, rotation |-> s.rotation, endFraction |-> 0]

\* The position of a trajectory in renderTrajectories: coord (the empty set
\* when it stays null), and the rotation and endFraction written into the
\* trajectory when it has more than one time interval
TrackerPosition(tr, traj, currTime) ==
  IF Len(traj.timeIntervals) <= 1
  THEN [coord |-> {}, written |-> FALSE, rotation |-> traj.rotation,
        endFraction |-> traj.endFraction]
  ELSE PositionAt(tr, traj, currTime - traj.timeOffset,
                  SearchInterval(traj.timeIntervals, currTime - traj.timeOffset))

\* getVehiclePosition(now, trajectory, noInterpolate): coord is the empty
\* set when it stays undefined
GetVehiclePosition(now, traj, noInterpolate) ==
  LET intervals == traj.timeIntervals
      n == Len(intervals)
      hits == {j \in 1..(n - 1) : intervals[j].time <= now /\ now <= intervals[j + 1].time}
      j == Min(hits)
      start == intervals[j]
      end == intervals[j + 1]
  IN IF noInterpolate /\ traj.coordinate # {}
     THEN [coord |-> traj.coordinate, rotation |-> Undefined]
     ELSE IF traj.geometry.type = "Point"
     THEN [coord |-> {GetFirstCoordinate(traj.geometry)}, rotation |-> Undefined]
     ELSE IF now < intervals[1].time
     THEN [coord |-> {GetFirstCoordinate(traj.geometry)}, rotation |-> intervals[1].rotation]
     ELSE IF now > intervals[n].time
     THEN [coord |-> {GetLastCoordinate(traj.geometry)}, rotation |-> intervals[n].rotation]
     ELSE IF hits = {}
     THEN [coord |-> {}, rotation |-> Undefined]
     ELSE [coord |-> {GetCoordinateAt(traj.geometry,
                        (now - start.time) * (end.frac - start.frac)
                          + start.frac * (end.time - start.time),
                        FracUnit * (end.time - start.time))},
           rotation |-> start.rotation]

\* traj.rendered is set when the projector gives a pixel
MarkRendered(traj, px) == [traj EXCEPT !.rendered = TRUE]

\* The loop's turn for a trajectory that has a coord. extent: the
\* coordinates the projector (getPixelFromCoordinate) gives a pixel for,
\* [coord, 0].
RenderAt(r, i, traj, coord, extent) ==
  LET placed == [traj EXCEPT !.coordinate = {coord}]
      moved == /\ coord >= 0 /\ coord <= r.tr.width
               /\ traj.px_before # {coord}
  IN IF coord \notin extent
     THEN [r EXCEPT !.tr.trajectories[i] = placed]
     ELSE IF r.tr.hoverVehicleId = traj.id
     THEN [r EXCEPT !.tr.trajectories[i] = MarkRendered(placed, {coord}),
                    !.hover = {[id |-> traj.id, px |-> coord]}]
     ELSE IF moved
     THEN [r EXCEPT !.tr.trajectories[i] =
                       [MarkRendered(placed, {coord}) EXCEPT !.px_before = {coord}],
                    !.tr.canvas = (IF r.cleared THEN @ ELSE {})
                                    \cup {[id |-> traj.id, px |-> coord]},
                    !.cleared = TRUE,
                    !.drawn = @ \cup {traj.id}]
     ELSE [r EXCEPT !.tr.trajectories[i] = MarkRendered(placed, {coord})]

\* The loop's turn once the position is computed
RenderPositioned(r, i, traj, pos, extent) ==
  IF r.tr.filter # Undefined /\ ~ApplyFilter(r.tr.filter, traj) THEN r
  ELSE IF pos.coord = {}
  THEN [r EXCEPT !.tr.trajectories[i] =
                    IF pos.written
                    THEN [traj EXCEPT !.rotation = pos.rotation,
                                      !.endFraction = pos.endFraction]
                    ELSE traj]
  ELSE RenderAt(r, i, [traj EXCEPT !.rotation = pos.rotation,
                                   !.endFraction = pos.endFraction],
                CHOOSE c \in pos.coord : TRUE, extent)

\* One turn of the loop of renderTrajectories
RenderOne(r, i, currTime, extent) ==
  RenderPositioned(r, i, r.tr.trajectories[i],
                   TrackerPosition(r.tr, r.tr.trajectories[i], currTime), extent)

RECURSIVE RenderLoop(_, _, _, _)
RenderLoop(r, i, currTime, extent) ==
  IF i < 1 THEN r ELSE RenderLoop(RenderOne(r, i, currTime, extent), i - 1, currTime, extent)

\* The end of renderTrajectories: the hovered vehicle is drawn, the
\* rendered trajectories are listed
FinishPass(r) ==
  [r.tr EXCEPT !.canvas = @ \cup r.hover,
               !.renderedTrajectories =
                  LET kept == SelectSeq(r.tr.trajectories, LAMBDA x : x.rendered)
                  IN [k \in DOMAIN kept |-> kept[k].id]]

\* tracker.renderTrajectories(currTime, size, resolution)
TrackerRenderTrajectories(tr, currTime, extent) ==
  FinishPass(RenderLoop([tr |-> tr, cleared |-> FALSE, hover |-> {}, drawn |-> {}],
                        Len(tr.trajectories), currTime, extent))

\* tracker.clear()
TrackerClear(tr) == [tr EXCEPT !.canvas = {}]

\* tracker.setVisible(visible)
TrackerSetVisible(tr, visible) ==
  [tr EXCEPT !.visibility = IF visible THEN "visible" ELSE "hidden"]

\* --------------------------------------------------------- TrackerLayerMixin
\* The methods of the layer, on the record s of the layer, its tracker, the
\* wall clock and what the step did so far (passes: the render passes run,
\* each with the time it rendered).
LayerState == [layer |-> layer, tracker |-> tracker, wallClock |-> wallClock,
               passes |-> <<>>, threw |-> FALSE]

\* timeSteps of trackerConfig, for the zoom levels 0 to 20
TimeSteps ==
  <<100000, 50000, 40000, 30000, 20000, 15000, 10000, 5000, 2000, 1000, 400, 300,
    250, 180, 90, 60, 50, 50, 50, 50, 50>>

\* The shortest period of the timer, and the time step of a zoom level
\* that is not in the table
MinRefreshMs == 25
DefaultTimeStep == 25

\* Math.round(zoom), the zoom counted in halves of a level: x.5 goes up
RoundZoom(zoom) == (zoom + 1) \div 2

\* getRefreshTimeInMs(zoom): milliseconds, as the fraction num / den
GetRefreshTimeInMs(zoom, speed) ==
  LET roundedZoom == RoundZoom(zoom)
      timeStep == IF roundedZoom + 1 \in DOMAIN TimeSteps THEN TimeSteps[roundedZoom + 1]
                  ELSE DefaultTimeStep
  IN [num |-> IF MinRefreshMs * speed >= timeStep THEN MinRefreshMs * speed ELSE timeStep,
      den |-> speed]

\* stopUpdateTime(): clearInterval of the timer whose id updateTimeInterval
\* holds; interval says that this timer is armed, and it is the last of
\* timers, the periods of the armed timers
StopUpdateTime(s) ==
  IF s.layer.updateTimeInterval
  THEN [s EXCEPT !.layer.interval = FALSE,
                 !.layer.timers = IF s.layer.interval THEN SubSeq(@, 1, Len(@) - 1) ELSE @]
  ELSE s

\* stop(); the map layer's stop() then takes its zoomend listener off the map
LayerStop(s0) ==
  LET s == [StopUpdateTime(s0) EXCEPT !.layer.zoomend = FALSE]
  IN IF s.tracker.exists
     THEN [s EXCEPT !.tracker = TrackerClear(TrackerSetVisible(@, FALSE))]
     ELSE s

\* renderTrajectoriesInternal(size, resolution, noInterpolate)
RenderTrajectoriesInternal(s, extent) ==
  IF ~s.tracker.exists THEN s
  ELSE LET renderTime == IF s.layer.live THEN s.wallClock ELSE s.layer.currTime
       IN [s EXCEPT !.tracker = TrackerRenderTrajectories(@, renderTime, extent),
                    !.passes = Append(@, renderTime)]

\* renderTrajectories(size, resolution, noInterpolate)
LayerRenderTrajectories(s0, extent) ==
  LET s == IF s0.layer.requestId THEN [s0 EXCEPT !.layer.frame = FALSE] ELSE s0
  IN IF s.layer.useRequestAnimationFrame
     THEN [s EXCEPT !.layer.requestId = TRUE, !.layer.frame = TRUE]
     ELSE RenderTrajectoriesInternal(s, extent)

\* startUpdateTime() that does not stop the timer before
StartUpdateTimeKeepsTimer(s) ==
  [s EXCEPT !.layer.updateTimeInterval = TRUE, !.layer.interval = TRUE,
            !.layer.timers = Append(@, GetRefreshTimeInMs(s.layer.zoom, s.layer.speed))]

\* startUpdateTime(zoom): the map layer's getRefreshTimeInMs() takes the
\* zoom of the map (layer.zoom), whatever zoom is given
StartUpdateTime(s) ==
  [StopUpdateTime(s) EXCEPT
     !.layer.updateTimeInterval = TRUE, !.layer.interval = TRUE,
     !.layer.timers = Append(@, GetRefreshTimeInMs(s.layer.zoom, s.layer.speed))]

\* start(size, zoom, resolution); this.tracker.setVisible throws when the
\* tracker is null; the map layer's start() then listens to the map's zoomend
LayerStart(s0, extent) ==
  LET s == LayerStop(s0)
  IN IF ~s.tracker.exists THEN [s EXCEPT !.threw = TRUE]
     ELSE [StartUpdateTime(
             LayerRenderTrajectories([s EXCEPT !.tracker = TrackerSetVisible(@, TRUE)], extent))
           EXCEPT !.layer.zoomend = TRUE]

\* setCurrTime(time, size, resolution, mustRender)
LayerSetCurrTime(s, time, extent, mustRender) ==
  LET s1 == [s EXCEPT !.layer.currTime = time,
                      !.layer.lastUpdateTime = time]
  IN IF mustRender THEN LayerRenderTrajectories(s1, extent) ELSE s1

\* The callback of the interval of startUpdateTime
UpdateTime(s, extent) ==
  LET newTime == s.layer.currTime
                   + (s.wallClock - s.layer.lastUpdateTime) * s.layer.speed
  IN LayerSetCurrTime(s, newTime, extent, TRUE)

\* terminate(): stop(), tracker.destroy(), this.tracker = null
LayerTerminate(s0) ==
  LET s == LayerStop(s0)
  IN [s EXCEPT !.tracker = NoTracker]

\* init(map, options): the base class's init calls terminate(); options
\* holds width, height and the projector
LayerInit(s0, extent) ==
  LET s == [LayerTerminate(s0) EXCEPT
              !.tracker = NewTracker([interpolate |-> Undefined, width |-> 8])]
  IN IF s.layer.visible THEN LayerStart(s, extent) ELSE s

LayerOnClickAlwaysPushes(s, callback) ==
  [s EXCEPT !.layer.clickCallbacks = Append(@, callback)]

\* layer.onClick(callback) of the base class Layer, as its test has it: a
\* callback already in clickCallbacks is not added again
LayerOnClick(s, callback) ==
  IF callback \in Range(s.layer.clickCallbacks) THEN s
  ELSE [s EXCEPT !.layer.clickCallbacks = Append(@, callback)]

\* layer.unClick(callback) of the base class Layer, as its test has it: the
\* callback is taken out of clickCallbacks
LayerUnClick(s, callback) ==
  [s EXCEPT !.layer.clickCallbacks = SelectSeq(@, LAMBDA x : x # callback)]

\* The getter of filter, sort, hoverVehicleId and pixelRatio
ReadProperty(s, key) ==
  IF s.tracker.exists THEN s.tracker[key] ELSE s.layer.initTrackerOptions[key]

\* The setter of filter, sort, hoverVehicleId and pixelRatio
WriteProperty(s, key, value) ==
  IF s.tracker.exists
  THEN [s EXCEPT !.tracker[key] = value]
  ELSE [s EXCEPT !.layer.initTrackerOptions[key] = value]

\* The listener of change:visible set by init
OnChangeVisible(s0, visible, extent) ==
  LET s == [s0 EXCEPT !.layer.visible = visible]
  IN IF visible THEN LayerStart(s, extent) ELSE LayerStop(s)

\* ------------------------------------------------------ history, bookkeeping
\* Closures have no name of their own: after each step they are renamed, an
\* entry's closure after its place in the list and any other closure still
\* registered on the socket after those.
Canon(w) ==
  LET n == Len(w.subscriptions)
      lids == {w.subscriptions[i].lid : i \in 1..n}
      Place(x) == Min({i \in 1..n : w.subscriptions[i].lid = x})
      Rank(x, others) == Cardinality({y \in others : y <= x})
      Rename(L) == LET others == {l.lid : l \in L} \ lids
                   IN {[l EXCEPT !.lid = IF l.lid \in lids THEN Place(l.lid)
                                         ELSE n + Rank(l.lid, others)] : l \in L}
  IN [w EXCEPT !.subscriptions = [i \in 1..n |-> [w.subscriptions[i] EXCEPT !.lid = i]],
               !.websocket.msgL = Rename(@)]

\* The same for the closures of get(): a closure registered on the socket is
\* named after its place among the listeners, any other after those, in
\* the order of the requests.
CanonRequests(w) ==
  LET L == w.websocket.reqL
      R == w.requests
      Place(x) == Min({i \in DOMAIN L : L[i].lid = x})
      loose == {i \in DOMAIN R : \A j \in DOMAIN L : L[j].lid # R[i].lid}
      Name(x) == IF \E j \in DOMAIN L : L[j].lid = x THEN Place(x)
                 ELSE Len(L) + Cardinality({i \in loose : i <= Min({k \in loose : R[k].lid = x})})
      Rename(s) == [i \in DOMAIN s |-> [s[i] EXCEPT !.lid = Name(@)]]
  IN [w EXCEPT !.requests = Rename(@), !.websocket.reqL = Rename(@),
               !.websocket.errL = Rename(@)]

\* SUBs minus DELs given to send() for a channel: exact between 0 and
\* MaxBal - 1; -1 once a DEL came without a SUB before it, MaxBal once the
\* balance passed what is tracked (both final).
BalStep(b, m) ==
  IF m.verb \notin {"SUB", "DEL"} \/ m.arg \notin DOMAIN b THEN b
  ELSE IF b[m.arg] \in {-1, MaxBal} THEN b
  ELSE [b EXCEPT ![m.arg] = IF m.verb = "SUB" THEN @ + 1 ELSE @ - 1]

RECURSIVE BalOf(_, _, _)
BalOf(b, msgs, i) == IF i > Len(msgs) THEN b ELSE BalOf(BalStep(b, msgs[i]), msgs, i + 1)

HasEntry(subs, channel, cb) ==
  \E i \in DOMAIN subs : subs[i].channel = channel /\ subs[i].cb = cb

NonQuiet(subs, channel) ==
  Cardinality({i \in DOMAIN subs : subs[i].channel = channel /\ ~subs[i].quiet})

\* The assignments of a step, from its result w in canonical form
CommitCanon(w, e) ==
  /\ websocket' = w.websocket
  /\ stale' = w.stale
  /\ messagesOnOpen' = w.messagesOnOpen
  /\ subscriptions' = w.subscriptions
  /\ subscribed' = w.subscribed
  /\ requests' = w.requests
  /\ promise' = w.promise
  /\ departureObject' = w.departureObject
  /\ departureArray' = w.departureArray
  /\ subscribedStationUic' = w.subscribedStationUic
  /\ departureUpdateTimeout' = w.departureUpdateTimeout
  /\ projection' = w.projection
  /\ bbox' = w.bbox
  /\ buffer' = w.buffer
  /\ pingInterval' = w.pingInterval
  /\ reconnectTimeout' = w.reconnectTimeout
  /\ reconnectTimeoutMs' = w.reconnectTimeoutMs
  /\ asked' = w.asked
  /\ bboxSet' = w.bboxSet
  /\ gen' = w.gen
  /\ bal' = BalOf(bal, w.issued, 1)
  /\ ev' = [e EXCEPT !.issued = w.issued, !.wire = w.wire, !.armed = w.armed,
                     !.newSocket = w.newSocket, !.calls = w.calls,
                     !.errCalls = w.errCalls, !.threw = w.threw]
  /\ UNCHANGED layerVars

\* The step's result w0 becomes the next state; e says what the step was.
Commit(w0, e) ==
  CommitCanon(CanonRequests(Canon([w0 EXCEPT !.websocket = Settle(@)])), e)

\* After construction, but for the departure map
InitClient ==
  /\ websocket = NoSocket
  /\ stale = EmptyBag
  /\ messagesOnOpen = <<>>
  /\ subscriptions = <<>>
  /\ subscribed = {}
  /\ requests = <<>>
  /\ promise = [q \in Queries |-> NoPromise]
  /\ subscribedStationUic = Undefined
  /\ departureUpdateTimeout = [armed |-> FALSE, sortByMinArrivalTime |-> FALSE]
  /\ projection = Undefined
  /\ bbox = Undefined
  /\ buffer = DefaultBuffer
  /\ pingInterval = FALSE
  /\ reconnectTimeout = FALSE
  /\ reconnectTimeoutMs = ReconnectDefaultMs
  /\ asked = {}
  /\ bboxSet = FALSE
  /\ clientClosed = FALSE
  /\ gen = "none"
  /\ unsubscribed = {}
  /\ bal = [c \in Channels |-> 0]
  /\ ev = NoEv

\* The properties of the layer that stand for a field of the tracker
ConfigKeys == {"filter", "sort", "hoverVehicleId", "pixelRatio"}

\* What the last step of the layer did; lastReal: the wall clock when
\* currTime was last stored; stopped: stop() ran and start() has not since;
\* written: per property, the value last written through the layer
NoTev == [op |-> "", passes |-> <<>>, threw |-> FALSE, deferred |-> FALSE,
          lastReal |-> 0, stopped |-> FALSE, extent |-> {},
          now |-> 0, id |-> "", position |-> [coord |-> {}, rotation |-> Undefined],
          written |-> [k \in ConfigKeys |-> "unwritten"]]

\* The layer after construction (defineProperties), no callback given
NewLayer(now) ==
  [live |-> TRUE, currTime |-> now, lastUpdateTime |-> now, speed |-> 1,
   updateTimeInterval |-> FALSE, interval |-> FALSE, timers |-> <<>>,
   zoom |-> 20, zoomend |-> FALSE, requestId |-> FALSE, frame |-> FALSE,
   useRequestAnimationFrame |-> FALSE, visible |-> TRUE,
   initTrackerOptions |-> [filter |-> Undefined, sort |-> Undefined,
                           hoverVehicleId |-> Undefined, pixelRatio |-> "1"],
   clickCallbacks |-> <<>>]

InitLayer ==
  /\ wallClock = 10
  /\ layer = NewLayer(wallClock)
  /\ tracker = NoTracker
  /\ tev = [NoTev EXCEPT !.lastReal = wallClock]

InitApi ==
  /\ InitClient
  /\ departureObject = <<>>
  /\ departureArray = <<>>

Init ==
  /\ InitApi
  /\ InitLayer

\* ---------------------------------------------------------------- actions
Ev(op) == [NoEv EXCEPT !.op = op]

\* The environment queues no more than MaxPending messages.
Bounded(w) == Len(w.messagesOnOpen) <= MaxPending

\* api.open()
Open ==
  LET w == RtOpen(State) IN
  /\ StaleCount(w) <= MaxStale
  /\ clientClosed' = FALSE
  /\ UNCHANGED unsubscribed
  /\ Commit(w, Ev("open"))

\* api.close()
Close ==
  LET w == RtClose(State) IN
  /\ StaleCount(w) <= MaxStale
  /\ clientClosed' = TRUE
  /\ UNCHANGED unsubscribed
  /\ Commit(w, Ev("close"))

\* The reconnect timeout set by onClose() elapses: () => this.open()
ReconnectFires ==
  LET w == RtOpen([State EXCEPT !.reconnectTimeout = FALSE]) IN
  /\ reconnectTimeout
  /\ StaleCount(w) <= MaxStale
  /\ UNCHANGED <<clientClosed, unsubscribed>>
  /\ Commit(w, Ev("reconnect"))

\* The keep-alive interval set by onOpen() elapses
PingFires ==
  LET w == WsSend(State, Msg("PING", "")) IN
  /\ pingInterval
  /\ Bounded(w)
  /\ UNCHANGED <<clientClosed, unsubscribed>>
  /\ Commit(w, Ev("ping"))

\* The current socket's connection is established: its 'open' event
SocketOpens ==
  /\ IsConnecting(State)
  /\ UNCHANGED <<clientClosed, unsubscribed>>
  /\ LET w0 == [State EXCEPT !.websocket.rs = "OPEN", !.websocket.openL = <<>>,
                             !.asked = {}, !.bboxSet = FALSE]
         w == DispatchOpen(w0, websocket.openL, 1)
     IN Commit(w, [Ev("socketOpen") EXCEPT !.asked = asked, !.bboxSet = bboxSet,
                                           !.reopen = (gen = "later")])

\* The 'close' event of the current socket: the connection failed or was
\* closed by the server.
SocketCloses ==
  /\ websocket.rs \in {"CONNECTING", "OPEN"}
  /\ UNCHANGED <<clientClosed, unsubscribed>>
  /\ Commit(WithCallbacks(DispatchClose([State EXCEPT !.websocket.rs = "CLOSED"],
                          [onclose |-> websocket.onclose, clr |-> websocket.clr,
                           errL |-> websocket.errL]), NoEv.frame),
            [Ev("socketClose") EXCEPT !.current = TRUE])

\* The 'close' event of a socket close() was called on
StaleSocketCloses(k) ==
  /\ BagIn(k, stale)
  /\ UNCHANGED <<clientClosed, unsubscribed>>
  /\ Commit(WithCallbacks(DispatchClose([State EXCEPT !.stale = @ (-) SetToBag({k})], k),
                          NoEv.frame),
            [Ev("socketClose") EXCEPT !.byClient = TRUE])

\* A frame arrives on the open socket: its 'message' event
MessageArrives(frame) ==
  /\ IsOpen(State)
  /\ UNCHANGED <<clientClosed, unsubscribed>>
  /\ Commit(WithCallbacks(DispatchMessage(
                [State EXCEPT !.threw = Throws(frame) /\ websocket.msgL # {}],
                websocket.reqL, frame, 1), frame),
            [Ev("message") EXCEPT !.frame = frame,
                                  !.delivered = OnMessage(State, frame)])

\* api.subscribe(channel, cb, undefined, quiet)
Subscribe(channel, cb, quiet) ==
  LET w == WsSubscribe(State, ChannelParams(channel), cb, quiet) IN
  /\ Bounded(w)
  /\ UNCHANGED clientClosed
  /\ unsubscribed' = unsubscribed \ {[channel |-> channel, cb |-> cb]}
  /\ Commit(w, [Ev("subscribe") EXCEPT !.channel = channel, !.cb = cb, !.quiet = quiet,
                                       !.nonQuietBefore = NonQuiet(subscriptions, channel),
                                       !.entryBefore = HasEntry(subscriptions, channel, cb)])

\* wsApi.unsubscribe(source, cb)
Unsubscribe(source, cb) ==
  LET w == WsUnsubscribe(State, source, cb) IN
  /\ Bounded(w)
  /\ UNCHANGED clientClosed
  /\ unsubscribed' = unsubscribed \cup
        {[channel |-> source, cb |-> h] : h \in IF cb = NoCb THEN Handlers ELSE {cb}}
  /\ Commit(w, [Ev("unsubscribe") EXCEPT !.channel = source, !.cb = cb,
                                         !.nonQuietBefore = NonQuiet(subscriptions, source)])

\* wsApi.get(params, cb, errorCb)
Get(p, cb, errorCb) ==
  LET w == WsGet(State, p, cb, errorCb) IN
  /\ Bounded(w)
  /\ Len(w.websocket.reqL) <= MaxListeners
  /\ Len(w.requests) <= MaxListeners
  /\ UNCHANGED <<clientClosed, unsubscribed>>
  /\ Commit(w, [Ev("get") EXCEPT !.channel = RequestArg(p), !.cb = cb])

\* The params of getStation(uic, mode), getFullTrajectory(id, mode) and
\* getStopSequence(id), for one station and one vehicle
QueryParams(q, mode) ==
  CASE q = "getStation" ->
         [channel |-> "station" \o GetModeSuffix(mode), args |-> "8503000", id |-> Undefined]
    [] q = "getFullTrajectory" ->
         [channel |-> "full_trajectory" \o GetModeSuffix(mode) \o "_v1",
          args |-> Undefined, id |-> Undefined]
    [] q = "getStopSequence" ->
         [channel |-> "stopsequence_v1", args |-> Undefined, id |-> Undefined]

\* api.getStation(uic, mode), api.getFullTrajectory(id, mode),
\* api.getStopSequence(id): a new promise whose executor calls wsApi.get()
\* with callbacks of its own; only getStopSequence gives an error callback.
\* The environment asks each query once.
Query(q, mode) ==
  LET w == WsGet([State EXCEPT !.promise[q] = [st |-> "pending", val |-> "none"]],
                 QueryParams(q, mode), q, IF q = "getStopSequence" THEN q ELSE NoCb)
  IN
  /\ promise[q].st = "none"
  /\ Bounded(w)
  /\ Len(w.websocket.reqL) <= MaxListeners
  /\ UNCHANGED <<clientClosed, unsubscribed>>
  /\ Commit(w, [Ev("query") EXCEPT !.channel = RequestArg(QueryParams(q, mode)), !.cb = q])

\* The [channel, cb] an unsubscribe of both modes of a stream withdraws
Withdrawn(stream, cb) ==
  {[channel |-> ModeChannel(stream, m), cb |-> h]
     : m \in Modes, h \in IF cb = NoCb THEN {subscriptions[i].cb : i \in DOMAIN subscriptions}
                          ELSE {cb}}

\* api.subscribeTrajectory(mode, onMessage, quiet)
SubscribeTrajectory(mode, onMessage, quiet) ==
  LET w == RtSubscribeTrajectory(State, mode, onMessage, quiet) IN
  /\ Bounded(w)
  /\ UNCHANGED clientClosed
  /\ unsubscribed' = (unsubscribed \cup Withdrawn("trajectory", onMessage))
                        \ {[channel |-> ModeChannel("trajectory", mode), cb |-> onMessage]}
  /\ Commit(w, [Ev("subscribeTrajectory") EXCEPT !.channel = ModeChannel("trajectory", mode),
                                                 !.cb = onMessage, !.quiet = quiet])

\* api.unsubscribeTrajectory(cb)
UnsubscribeTrajectory(cb) ==
  LET w == RtUnsubscribeTrajectory(State, cb) IN
  /\ Bounded(w)
  /\ UNCHANGED clientClosed
  /\ unsubscribed' = unsubscribed \cup Withdrawn("trajectory", cb)
  /\ Commit(w, [Ev("unsubscribeTrajectory") EXCEPT !.channel = "trajectory", !.cb = cb])

\* api.subscribeStations(mode, onMessage)
SubscribeStations(mode, onMessage) ==
  LET w == RtSubscribeStations(State, mode, onMessage) IN
  /\ Bounded(w)
  /\ UNCHANGED clientClosed
  /\ unsubscribed' = (unsubscribed \cup Withdrawn("station", NoCb))
                        \ {[channel |-> ModeChannel("station", mode),
                            cb |-> StationWrapper(onMessage)]}
  /\ Commit(w, [Ev("subscribeStations") EXCEPT !.channel = ModeChannel("station", mode),
                                               !.cb = StationWrapper(onMessage)])

\* api.unsubscribeStations(cb)
UnsubscribeStations(cb) ==
  LET w == RtUnsubscribeStations(State, cb) IN
  /\ Bounded(w)
  /\ UNCHANGED clientClosed
  /\ unsubscribed' = unsubscribed \cup Withdrawn("station", cb)
  /\ Commit(w, [Ev("unsubscribeStations") EXCEPT !.channel = "station", !.cb = cb])

\* The timeout of subscribeDepartures fires: filterDepartures(departureObject,
\* sortByMinArrivalTime)
Filter(sortByMinArrivalTime) ==
  LET r == FilterDepartures(departureObject, sortByMinArrivalTime) IN
  /\ UNCHANGED <<clientClosed, unsubscribed>>
  /\ Commit([State EXCEPT !.departureObject = r.depObject,
                          !.departureArray = r.departureArray],
            [Ev("filterDepartures") EXCEPT !.sortByMinArrivalTime = sortByMinArrivalTime,
                                           !.ids = r.ids])

\* api.bbox = newBbox
SetBbox(newBbox) ==
  LET w == IF newBbox # bbox
           THEN WsSend([State EXCEPT !.bbox = newBbox], Msg("BBOX", newBbox))
           ELSE State
  IN
  /\ Bounded(w)
  /\ UNCHANGED <<clientClosed, unsubscribed>>
  /\ Commit([w EXCEPT !.bboxSet = @ \/ ~IsOpen(State)], Ev("setBbox"))

\* api.projection = newProjection
SetProjection(newProjection) ==
  LET w == IF newProjection # projection
           THEN WsSend([State EXCEPT !.projection = newProjection],
                       Msg("PROJECTION", newProjection))
           ELSE State
  IN
  /\ Bounded(w)
  /\ UNCHANGED <<clientClosed, unsubscribed>>
  /\ Commit(w, Ev("setProjection"))

\* api.buffer = newBuffer
SetBuffer(newBuffer) ==
  LET w == IF newBuffer # buffer
           THEN WsSend([State EXCEPT !.buffer = newBuffer], Msg("BUFFER", newBuffer))
           ELSE State
  IN
  /\ Bounded(w)
  /\ UNCHANGED <<clientClosed, unsubscribed>>
  /\ Commit(w, Ev("setBuffer"))

\* api.reconnectTimeoutMs = ms
SetReconnectTimeoutMs(ms) ==
  /\ ms # reconnectTimeoutMs
  /\ UNCHANGED <<clientClosed, unsubscribed>>
  /\ Commit([State EXCEPT !.reconnectTimeoutMs = ms], Ev("setReconnectTimeoutMs"))

RECURSIVE SeqsUpTo(_, _)
SeqsUpTo(S, n) ==
  IF n = 0 THEN {<<>>}
  ELSE LET shorter == SeqsUpTo(S, n - 1)
       IN shorter \cup {Append(q, x) : q \in shorter, x \in S}

Frames ==
  {[form |-> "frame", source |-> c, content |-> <<>>, body |-> "data",
    client_reference |-> Undefined] : c \in Channels}
  \cup {[form |-> "frame", source |-> "buffer", content |-> q, body |-> "data",
          client_reference |-> Undefined]
          : q \in SeqsUpTo([source : Channels, client_reference : {Undefined},
                            body : {"data"}], MaxContent)}

\* The payloads a server can send: objects with a source of a channel or of
\* a request with args, with or without a client_reference; buffer frames,
\* whose list may hold a null; text that is not JSON; the JSON null; a
\* buffer frame whose content is no list.
Sources == {"c1", "c1 a"}
References == {Undefined, "7", "8"}
InnerFrames ==
  [source : Sources, client_reference : {Undefined, "7"}, body : {"data"}] \cup {NullItem}
Payloads ==
  {[form |-> "frame", source |-> s, content |-> <<>>, body |-> "data", client_reference |-> r]
     : s \in Sources, r \in References}
  \cup {[form |-> "frame", source |-> "buffer", content |-> q, body |-> "data",
          client_reference |-> r]
          : q \in SeqsUpTo(InnerFrames, MaxContent), r \in {Undefined, "7"}}
  \cup {[form |-> f, source |-> Undefined, content |-> <<>>, body |-> "absent",
          client_reference |-> Undefined] : f \in {"text", "null"}}
  \cup {[form |-> "nolist", source |-> "buffer", content |-> <<>>, body |-> "data",
          client_reference |-> Undefined]}

\* The responses a server can send to the one-shot queries: with content,
\* with an empty list as content, or without content.
Responses ==
  {[form |-> "frame", source |-> Key(QueryParams(q, m)), content |-> <<>>, body |-> b,
    client_reference |-> Undefined]
     : q \in Queries, m \in Modes, b \in {"absent", "empty", "data"}}

\* The frames of the streams that have a channel per rendering mode
ModeFrames ==
  {[form |-> "frame", source |-> ModeChannel(s, m), content |-> <<>>, body |-> "data",
    client_reference |-> Undefined] : s \in {"trajectory", "station"}, m \in Modes}

\* The channels the environment subscribes to; frames of the other channels
\* of Channels arrive too.
SubChannels == {"c1"}

\* The socket's life, common to all specifications.
Connection ==
  \/ Open
  \/ Close
  \/ ReconnectFires
  \/ SocketOpens
  \/ SocketCloses
  \/ \E k \in StaleKinds : StaleSocketCloses(k)

Subscribing ==
  \/ \E c \in SubChannels, h \in Handlers, q \in BOOLEAN : Subscribe(c, h, q)
  \/ \E c \in SubChannels, h \in Handlers \cup {NoCb} : Unsubscribe(c, h)
  \/ \E f \in Frames : MessageArrives(f)

Sending ==
  \/ PingFires
  \/ \E b \in BBoxes : SetBbox(b)

Framing ==
  \/ \E p \in Projections : SetProjection(p)
  \/ \E b \in Buffers : SetBuffer(b)

Configuring ==
  \E ms \in {0, ReconnectDefaultMs} : SetReconnectTimeoutMs(ms)

Next == Connection \/ Subscribing \/ Sending \/ Framing \/ Configuring

Spec == Init /\ [][Next]_vars

\* The multiplexer: subscribe, unsubscribe and inbound frames over the
\* socket's life.
NextSub == Connection \/ Subscribing
SpecSub == Init /\ [][NextSub]_vars

\* The transport's queue: the commands of the viewport setter and of the
\* keep-alive over the socket's life.
NextQueue == Connection \/ Sending
SpecQueue == Init /\ [][NextQueue]_vars

\* Keep-alive and reconnection.
NextLife == Connection \/ PingFires \/ Configuring
SpecLife == Init /\ [][NextLife]_vars

\* A timer that is armed fires; a socket that is closing closes.
LiveSpec ==
  /\ SpecLife
  /\ WF_vars(ReconnectFires)
  /\ WF_vars(\E k \in StaleKinds : StaleSocketCloses(k))

\* The replay on open: the viewport setter and a subscription over the
\* socket's life.
Replaying ==
  \/ \E b \in BBoxes : SetBbox(b)
  \/ \E c \in SubChannels : Subscribe(c, "h1", FALSE)

NextReplay == Connection \/ Replaying
SpecReplay == Init /\ [][NextReplay]_vars

\* Requests and dispatch: one-shot requests, a subscription and every
\* payload on the first socket once it is open.
Requesting ==
  \/ \E p \in Params : IsOpen(State) /\ Get(p, "h1", "e1")
  \/ \E c \in SubChannels : IsOpen(State) /\ Subscribe(c, "h2", FALSE)
  \/ \E f \in Payloads : MessageArrives(f)

NextGet == (IsNull(State) /\ Open) \/ SocketOpens \/ Requesting
SpecGet == Init /\ [][NextGet]_vars

\* The streams with a channel per rendering mode, on the first socket once
\* it is open.
Streaming ==
  \/ \E m \in Modes, h \in Handlers : IsOpen(State) /\ SubscribeTrajectory(m, h, FALSE)
  \/ \E h \in Handlers \cup {NoCb} : IsOpen(State) /\ UnsubscribeTrajectory(h)
  \/ \E m \in Modes : IsOpen(State) /\ SubscribeStations(m, "h1")
  \/ IsOpen(State) /\ UnsubscribeStations(NoCb)
  \/ \E f \in ModeFrames : MessageArrives(f)

NextModes == (IsNull(State) /\ Open) \/ SocketOpens \/ Streaming
SpecModes == Init /\ [][NextModes]_vars

\* The departure list: filterDepartures over every small departure map.
DepartureTimes == {0 - AgeMs, 0, 500, 10000, AgeMs}
Departures ==
  [time : DepartureTimes, arrival : {0, 10000},
   state : {"BOARDING", "PENDING", "JOURNEY_CANCELLED"},
   platform : {"3", "4"}, to : {"A", "B"}, line : {"S1", "S2"}, cancelled : {FALSE}]

\* The maps told apart by platform, destination and line up to their
\* names: the first record has the first of each.
DepartureMaps ==
  {q \in SeqsUpTo(Departures, MaxDepartures) :
     q # <<>> => q[1].platform = "3" /\ q[1].to = "A" /\ q[1].line = "S1"}

InitFilter ==
  /\ InitLayer
  /\ InitClient
  /\ departureObject \in DepartureMaps
  /\ departureArray = <<>>

NextFilter == \E f \in BOOLEAN : Filter(f)
SpecFilter == InitFilter /\ [][NextFilter]_vars

\* The one-shot queries and their responses on the first socket.
Querying ==
  \/ \E q \in Queries, m \in Modes : Query(q, m)
  \/ \E f \in Responses : MessageArrives(f)

NextQuery == (IsNull(State) /\ Open) \/ SocketOpens \/ SocketCloses \/ Querying
SpecQuery == Init /\ [][NextQuery]_vars

\* ------------------------------------------------------------- the claims
Count(seq, m) == Cardinality({i \in DOMAIN seq : seq[i] = m})
OfVerb(seq, verb) == LET Is(m) == m.verb = verb IN SelectSeq(seq, Is)
Pair(channel, cb) == [channel |-> channel, cb |-> cb]

\* C1: a subscribe that registers a non-quiet listener on a channel with no
\* non-quiet listener gives GET channel, then SUB channel, to send, whatever
\* quiet listeners were registered before; every other subscribe gives
\* nothing to send.
C1_FirstNonQuietSendsGetSub ==
  ev.op = "subscribe" =>
    IF ~ev.quiet /\ ev.nonQuietBefore = 0
    THEN ev.issued = <<Msg("GET", ev.channel), Msg("SUB", ev.channel)>>
    ELSE ev.issued = <<>>

\* C2: an unsubscribe gives exactly one DEL channel to send if and only if
\* it removes the last non-quiet listener of the channel, and nothing
\* otherwise; the DELs of a channel never outnumber its SUBs.
C2_DelIffLastNonQuietRemoved ==
  /\ ev.op = "unsubscribe" =>
       IF ev.nonQuietBefore > 0 /\ NonQuiet(subscriptions, ev.channel) = 0
       THEN ev.issued = <<Msg("DEL", ev.channel)>>
       ELSE ev.issued = <<>>
  /\ \A c \in Channels : bal[c] >= 0

\* C3: when a socket opened after an earlier one was closed, the new
\* connection carries exactly one GET and one SUB for every channel that has
\* a registered non-quiet listener, and no GET and no SUB for a channel that
\* has no listener left.
C3_ResubscribedOnceOnReopen ==
  (ev.op = "socketOpen" /\ ev.reopen) =>
    \A c \in Channels :
      /\ NonQuiet(subscriptions, c) > 0 =>
           Count(ev.wire, Msg("GET", c)) = 1 /\ Count(ev.wire, Msg("SUB", c)) = 1
      /\ (\A i \in DOMAIN subscriptions : subscriptions[i].channel # c) =>
           Count(ev.wire, Msg("GET", c)) = 0 /\ Count(ev.wire, Msg("SUB", c)) = 0

C5_OneEntryOneListenerPerPair ==
  /\ \A i, j \in DOMAIN subscriptions :
       (subscriptions[i].channel = subscriptions[j].channel
        /\ subscriptions[i].cb = subscriptions[j].cb) => i = j
  /\ \A l, m \in websocket.msgL : (l.channel = m.channel /\ l.cb = m.cb) => l = m
  /\ ev.op = "message" =>
       /\ \A d \in ev.delivered : d.n = Matches(d, ev.frame)
       /\ \A i \in DOMAIN subscriptions :
            Matches(subscriptions[i], ev.frame) > 0 =>
              \E d \in ev.delivered : d.channel = subscriptions[i].channel
                                      /\ d.cb = subscriptions[i].cb

C5_Witness ==
  /\ ev.op = "subscribe" /\ ev.entryBefore
  /\ IsOpen(State)
  /\ Len(subscriptions) = 2
  /\ Cardinality(websocket.msgL) = 2

\* C6: every message given to send() while the socket was connecting is
\* transmitted exactly once when the socket opens.
C6_PendingSentExactlyOnce ==
  ev.op = "socketOpen" => \A m \in ev.asked : Count(ev.wire, m) = 1

\* C7: when the bbox was set while the socket was not open, the open
\* transmits exactly one BBOX command, with the value set last.
C7_OneBboxWithLastValue ==
  (ev.op = "socketOpen" /\ ev.bboxSet) => OfVerb(ev.wire, "BBOX") = <<Msg("BBOX", bbox)>>

\* C8: the reconnect timer is armed by the close event of the current
\* socket only, never by the close event of a socket close() was called on
\* (by the client's close() or by a later open()), and a reconnect leaves
\* the timer unarmed.
C8_OnlyCurrentSocketArmsReconnect ==
  /\ ev.armed => (ev.op = "socketClose" /\ ev.current /\ ~ev.byClient)
  /\ ev.op = "reconnect" => ~reconnectTimeout

C8_Witness ==
  /\ ev.op = "socketClose" /\ ev.byClient
  /\ ~reconnectTimeout
  /\ reconnectTimeoutMs # 0

\* C9: from the client's close() to its next open() no timer is armed, no
\* PING is issued and no socket is created.
C9_NoTimerAfterClose ==
  clientClosed =>
    /\ ~pingInterval
    /\ ~reconnectTimeout
    /\ ev.op \notin {"ping", "reconnect"}
    /\ IsNull(State)

\* C10: after the close event of the current socket, a connection attempt
\* follows if reconnectTimeoutMs is not 0, and no timer is armed if it is 0.
UnexpectedClose == ev.op = "socketClose" /\ ev.current

C10_ReconnectsUnlessDisabled ==
  /\ (UnexpectedClose /\ reconnectTimeoutMs # 0) ~> (ev.op \in {"reconnect", "open"})
  /\ []((UnexpectedClose /\ reconnectTimeoutMs = 0) => ~reconnectTimeout)
  /\ [](ev.op = "reconnect" => ev.newSocket)

C10_Witness == ev.op = "reconnect" /\ ev.newSocket /\ IsConnecting(State)

\* C11: no socket is created while an earlier socket has not reached the
\* closed state: the sockets that are connecting, open or closing are never
\* more than one.
C11_OneSocketNotClosed ==
  (IF websocket.rs \in {"CONNECTING", "OPEN"} THEN 1 ELSE 0) + StaleCount(State) <= 1

\* C12: what an open transmits of PROJECTION, BBOX and BUFFER comes before
\* every GET and SUB it transmits.
C12_StateBeforeResubscription ==
  ev.op = "socketOpen" =>
    \A i, j \in DOMAIN ev.wire :
      (ev.wire[i].verb \in {"PROJECTION", "BBOX", "BUFFER"}
       /\ ev.wire[j].verb \in {"GET", "SUB"}) => i < j


\* C13: a frame (or inner frame of a buffer) reaches a listener only if its
\* source is the listener's channel, followed by a space and the args when
\* the listener has args, and, for a listener with a request id, only if
\* the frame's client_reference is that id.
C13_DeliveredOnlyOnExactSource ==
  ev.op = "message" =>
    /\ \A k \in DOMAIN ev.calls :
         LET c == ev.calls[k] IN
         /\ FrameAt(ev.frame, c.pos).source =
              (IF c.args # Undefined THEN c.channel \o " " \o c.args ELSE c.channel)
         /\ c.id # Undefined => FrameAt(ev.frame, c.pos).client_reference = c.id
    /\ \A d \in ev.delivered :
         \A k \in DOMAIN d.at : FrameAt(ev.frame, d.at[k]).source = d.channel

Malformed(frame) ==
  \/ frame.form \in {"text", "null", "nolist"}
  \/ frame.source = "buffer" /\ \E i \in DOMAIN frame.content : frame.content[i] = NullItem

C15_MalformedPayloadDropped ==
  [][(ev'.op = "message" /\ Malformed(ev'.frame)) =>
       /\ ev'.calls = <<>> /\ ev'.delivered = {} /\ ~ev'.threw
       /\ requests' = requests /\ subscriptions' = subscriptions]_vars

\* C16: a get's callback is called for at most one matching frame, also of
\* one buffer frame with several matching inner frames, and once it was
\* called the request's entry and its message and error listeners are gone.
C16_GetFiresOnce ==
  ev.op = "message" =>
    \A k \in DOMAIN ev.calls :
      LET c == ev.calls[k]
          Same(x) == x.channel = c.channel /\ x.args = c.args /\ x.id = c.id /\ x.cb = c.cb
      IN /\ Cardinality({j \in DOMAIN ev.calls : Same(ev.calls[j])}) = 1
         /\ \A j \in DOMAIN requests : ~Same(requests[j])
         /\ \A j \in DOMAIN websocket.reqL : ~Same(websocket.reqL[j])
         /\ \A j \in DOMAIN websocket.errL : ~Same(websocket.errL[j])

\* C17: a get repeated with the same channel, args and callback replaces
\* the earlier one: one request entry and one message listener for it; a
\* single matching response (a frame that is no buffer) calls the callback
\* once and leaves no listener of these calls attached.
SameRequest(x, y) ==
  x.channel = y.channel /\ x.args = y.args /\ x.id = y.id /\ x.cb = y.cb

C17_IdenticalGetReplaces ==
  /\ ev.op = "get" =>
       /\ \A i, j \in DOMAIN websocket.reqL :
            SameRequest(websocket.reqL[i], websocket.reqL[j]) => i = j
       /\ \A i, j \in DOMAIN requests : SameRequest(requests[i], requests[j]) => i = j
  /\ (ev.op = "message" /\ ev.frame.source # "buffer") =>
       \A k \in DOMAIN ev.calls :
         /\ \A j \in DOMAIN ev.calls : SameRequest(ev.calls[j], ev.calls[k]) => j = k
         /\ \A j \in DOMAIN websocket.reqL : ~SameRequest(websocket.reqL[j], ev.calls[k])

\* C18: the first matching response settles the promise of a one-shot
\* query: resolved with the content when the response has content,
\* rejected when the content is absent or empty; never pending after a
\* response, never resolved on absent content.
C18_ResponseSettlesPromise ==
  ev.op = "message" =>
    \A k \in DOMAIN ev.calls :
      LET q == ev.calls[k].cb
          body == FrameAt(ev.frame, ev.calls[k].pos).body
      IN q \in Queries =>
           IF body = "data" THEN promise[q] = [st |-> "resolved", val |-> "data"]
           ELSE promise[q].st = "rejected"

\* What is registered on a channel: the [cb, quiet] of its entries and the
\* callbacks of its message listeners
EntriesOn(subs, c) ==
  {[cb |-> subs[i].cb, quiet |-> subs[i].quiet] : i \in {j \in DOMAIN subs : subs[j].channel = c}}

ListenersOn(sock, c) == {l.cb : l \in {m \in sock.msgL : m.channel = c}}

StreamOfOp(op) ==
  IF op \in {"subscribeTrajectory", "unsubscribeTrajectory"} THEN "trajectory" ELSE "station"

BoardingAt(obj, i) ==
  {j \in DOMAIN obj : /\ obj[j].state = "BOARDING" /\ InWindow(obj[j].time)
                      /\ obj[j].platform = obj[i].platform}

\* C20 as stated: of the BOARDING records inside the window that share a
\* platform, the one with the earliest time keeps BOARDING and every later
\* one is marked HIDDEN.
C20_LaterBoardingHidden ==
  [][ev'.op = "filterDepartures" =>
       \A i \in DOMAIN departureObject :
         i \in BoardingAt(departureObject, i) =>
           LET earlier == {j \in BoardingAt(departureObject, i) :
                             departureObject[j].time < departureObject[i].time}
               later == {j \in BoardingAt(departureObject, i) :
                           departureObject[j].time > departureObject[i].time}
           IN /\ earlier # {} => departureObject'[i].state = "HIDDEN"
              /\ (earlier = {} /\ later # {}) => departureObject'[i].state = "BOARDING"]_vars

\* C20 amended: the loop runs from the last sorted record to the first, so
\* of the BOARDING records inside the window that share a platform every
\* one but the last in sorted order is marked HIDDEN, and the last (the
\* latest) is not hidden by the platform rule: it keeps BOARDING unless
\* the record kept right after it in sorted order has the same
\* destination and line and a time less than a second apart.
C20_EarlierBoardingHidden ==
  [][ev'.op = "filterDepartures" =>
       LET obj == departureObject
           departures == Sorted(obj, ev'.sortByMinArrivalTime)
           Pos(i) == CHOOSE r \in DOMAIN departures : departures[r] = i
           Near(i, j) == /\ obj[i].to = obj[j].to /\ obj[i].line = obj[j].line
                         /\ obj[i].time - obj[j].time < 1000
                         /\ obj[j].time - obj[i].time < 1000
       IN \A i \in DOMAIN obj :
            i \in BoardingAt(obj, i) =>
              LET after == {j \in DOMAIN obj : InWindow(obj[j].time) /\ Pos(j) > Pos(i)}
                  next == {j \in after : \A k \in after : Pos(j) <= Pos(k)}
              IN IF after \cap BoardingAt(obj, i) # {}
                 THEN departureObject'[i].state = "HIDDEN"
                 ELSE departureObject'[i].state =
                        (IF \E j \in next : Near(i, j) THEN "HIDDEN" ELSE "BOARDING")]_vars

\* Two records boarding at one platform, ten seconds apart: the earlier
\* was marked HIDDEN, the later was not.
C20_Witness ==
  /\ ev.op = "filterDepartures"
  /\ \E i, j \in DOMAIN departureObject :
       /\ departureObject[i].platform = departureObject[j].platform
       /\ departureObject[i].time = 0 /\ departureObject[i].state = "HIDDEN"
       /\ departureObject[j].time = 10000 /\ departureObject[j].state = "BOARDING"

NearPair(a, b) ==
  /\ a.to = b.to /\ a.line = b.line
  /\ (IF a.time >= b.time THEN a.time - b.time ELSE b.time - a.time) < 1000

\* C22: when the record returned right before a returned record, in sorted
\* order, has the same destination and line name and a time less than one
\* second apart, the record is returned with state HIDDEN; the record before
\* it, if neither BOARDING nor itself preceded by such a record, keeps its
\* state.
C22_LaterOfNearPairHidden ==
  [][ev'.op = "filterDepartures" =>
       \A k \in 2..Len(ev'.ids) :
         LET p == ev'.ids[k - 1]
             d == ev'.ids[k]
         IN NearPair(departureObject[p], departureObject[d]) =>
              /\ departureArray'[k].state = "HIDDEN"
              /\ (/\ departureObject[p].state # "BOARDING"
                  /\ (k > 2 => ~NearPair(departureObject[ev'.ids[k - 2]], departureObject[p])))
                 => departureArray'[k - 1].state = departureObject[p].state]_vars

\* C23: filterDepartures leaves every record of the map it is given
\* unchanged (state, time, cancelled).
C23_InputMapUnchanged ==
  [][ev'.op = "filterDepartures" => departureObject' = departureObject]_vars

\* ------------------------------------------------------------ the layer's steps
\* The wall clock runs up to MaxClock.
MaxClock == 14

\* What the projector of a render pass gives a pixel for: every coordinate,
\* the coordinates from 2 on, none
Extents == {0..8, 2..8, {}}

LEv(op) == [NoTev EXCEPT !.op = op, !.lastReal = tev.lastReal, !.stopped = tev.stopped,
                         !.written = tev.written]

\* The step's result s becomes the next state of the layer; e says what
\* the step was.
LCommit(s, e) ==
  /\ layer' = s.layer
  /\ tracker' = s.tracker
  /\ wallClock' = s.wallClock
  /\ tev' = [e EXCEPT !.passes = s.passes, !.threw = s.threw]
  /\ UNCHANGED clientVars

\* Time passes.
Elapse ==
  /\ wallClock < MaxClock
  /\ LCommit([LayerState EXCEPT !.wallClock = @ + 1], LEv("elapse"))

\* layer.init(map)
LayerInits(extent) ==
  LET s == LayerInit(LayerState, extent)
  IN LCommit(s, [LEv("init") EXCEPT !.stopped = ~s.layer.visible, !.extent = extent])

\* layer.terminate()
LayerTerminates ==
  LCommit(LayerTerminate(LayerState), [LEv("terminate") EXCEPT !.stopped = TRUE])

\* layer.start()
Starts(extent) ==
  /\ tracker.exists
  /\ LCommit(LayerStart(LayerState, extent),
             [LEv("start") EXCEPT !.stopped = FALSE, !.extent = extent])

\* layer.stop()
Stops ==
  LCommit(LayerStop(LayerState), [LEv("stop") EXCEPT !.stopped = TRUE])

\* layer.visible = visible, between init and terminate
VisibleChanges(visible, extent) ==
  /\ tracker.exists
  /\ LCommit(OnChangeVisible(LayerState, visible, extent),
             [LEv("visible") EXCEPT !.stopped = ~visible, !.extent = extent])

\* The interval of startUpdateTime fires, dt after the last step.
TimerTick(dt, extent) ==
  /\ layer.timers # <<>>
  /\ wallClock + dt <= MaxClock
  /\ LCommit(UpdateTime([LayerState EXCEPT !.wallClock = @ + dt], extent),
             [LEv("tick") EXCEPT !.lastReal = wallClock + dt, !.extent = extent])

\* The animation frame requested by renderTrajectories runs.
FrameRuns(extent) ==
  /\ layer.frame
  /\ LCommit(RenderTrajectoriesInternal([LayerState EXCEPT !.layer.frame = FALSE], extent),
             [LEv("frame") EXCEPT !.deferred = TRUE, !.extent = extent])

\* layer.setCurrTime(time)
SetCurrTime(time, extent) ==
  LCommit(LayerSetCurrTime(LayerState, time, extent, TRUE),
          [LEv("setCurrTime") EXCEPT !.lastReal = wallClock, !.extent = extent])

\* layer.live = live
SetLive(live) ==
  /\ live # layer.live
  /\ LCommit([LayerState EXCEPT !.layer.live = live], LEv("live"))

\* layer.useRequestAnimationFrame = b
SetUseRequestAnimationFrame(b) ==
  /\ b # layer.useRequestAnimationFrame
  /\ LCommit([LayerState EXCEPT !.layer.useRequestAnimationFrame = b], LEv("useRequestAnimationFrame"))

\* layer.speed = newSpeed: cuurSpeed = newSpeed; this.start()
SetSpeed(newSpeed, extent) ==
  /\ newSpeed # layer.speed
  /\ LET s == LayerStart([LayerState EXCEPT !.layer.speed = newSpeed], extent)
     IN LCommit(s, [LEv("speed") EXCEPT !.stopped = IF s.threw THEN tev.stopped ELSE FALSE,
                                        !.extent = extent])

Speeds == {1, 2}
CurrTimes == {10, 12, 20}

\* The virtual clock: the layer from its construction on, its timer and
\* the time, live mode and speed set by the caller.
NextClock ==
  \/ Elapse
  \/ LayerInits(0..8)
  \/ \E dt \in {1, 2} : TimerTick(dt, 0..8)
  \/ \E time \in CurrTimes : SetCurrTime(time, 0..8)
  \/ \E live \in BOOLEAN : SetLive(live)
  \/ \E sp \in Speeds : SetSpeed(sp, 0..8)

SpecClock == Init /\ [][NextClock]_vars

\* C24: on a tick of the timer the time rendered is the wall clock when the
\* layer is live; otherwise it is the stored current time plus the real time
\* elapsed since the time was last stored (by the previous tick or by
\* setCurrTime) multiplied by speed.
C24_TickTime ==
  [][(tev'.op = "tick" /\ tev'.passes # <<>>) =>
       LET virtual == layer.currTime + (wallClock' - tev.lastReal) * layer.speed
       IN tev'.passes = <<IF layer.live THEN wallClock' ELSE virtual>>]_vars

\* ---------------------------------------------------------- render passes
\* A trajectory as the tracker is given it
Trajectory(id, geometry, timeIntervals, timeOffset) ==
  [id |-> id, geometry |-> geometry, timeIntervals |-> timeIntervals,
   timeOffset |-> timeOffset, rendered |-> FALSE, coordinate |-> {},
   rotation |-> Undefined, endFraction |-> 0, px_before |-> {}]

TimeInterval(time, frac, rotation) == [time |-> time, frac |-> frac, rotation |-> rotation]

Geometries == {[type |-> "LineString", coordinates |-> <<0, FracUnit>>],
               [type |-> "Point", coordinates |-> <<2>>]}

\* Time intervals, ascending: one, two and three of them
IntervalLists ==
  {<<TimeInterval(12, 0, "r1")>>,
   <<TimeInterval(12, 0, "r1"), TimeInterval(16, FracUnit, "r2")>>,
   <<TimeInterval(12, 0, "r1"), TimeInterval(14, FracUnit \div 2, "r2"),
     TimeInterval(16, FracUnit, "r3")>>}

TrajectoriesOf(id) ==
  {Trajectory(id, g, ti, off) : g \in Geometries, ti \in IntervalLists, off \in {0, 1}}

\* The lists given to setTrajectories: v1, or v1 without time offset and a
\* two-interval line v2
TrajectoryLists ==
  {<<a>> : a \in TrajectoriesOf("v1")}
    \cup {<<a, b>> : a \in {x \in TrajectoriesOf("v1") : x.timeOffset = 0},
                     b \in {x \in TrajectoriesOf("v2") :
                              /\ x.geometry.type = "LineString" /\ x.timeOffset = 0
                              /\ Len(x.timeIntervals) = 2}}

\* The times rendered: before, at, inside and after the intervals
RenderTimes == {10, 12, 13, 15, 16, 18}

\* tracker.setTrajectories(trajectories) without a sort function
SetTrajectories(list) ==
  /\ tracker.exists /\ tracker.sort = Undefined
  /\ LCommit([LayerState EXCEPT !.tracker.trajectories = list], LEv("setTrajectories"))

\* getVehiclePosition(now, trajectory, noInterpolate) on a stored trajectory
GetsVehiclePosition(i, now, noInterpolate) ==
  /\ i \in DOMAIN tracker.trajectories
  /\ LCommit(LayerState,
             [LEv("getVehiclePosition") EXCEPT
                !.id = tracker.trajectories[i].id, !.now = now,
                !.deferred = noInterpolate,
                !.position = GetVehiclePosition(now, tracker.trajectories[i], noInterpolate)])

\* The layer inited, stopped and not live, its tracker given trajectories
InitRender ==
  /\ InitApi
  /\ wallClock = 10
  /\ \E list \in TrajectoryLists :
       LET s == LayerStop(LayerInit([layer |-> NewLayer(10), tracker |-> NoTracker,
                                          wallClock |-> 10, passes |-> <<>>,
                                          threw |-> FALSE], {}))
       IN /\ layer = [s.layer EXCEPT !.live = FALSE]
          /\ tracker = [s.tracker EXCEPT !.trajectories = list]
  /\ tev = [NoTev EXCEPT !.lastReal = wallClock, !.stopped = TRUE]

NextRender ==
  \/ \E time \in RenderTimes, extent \in Extents : SetCurrTime(time, extent)
  \/ \E i \in 1..2, now \in RenderTimes, b \in BOOLEAN : GetsVehiclePosition(i, now, b)

SpecRender == InitRender /\ [][NextRender]_vars

\* A line with two time intervals or more.
Polyline(traj) == traj.geometry.type = "LineString" /\ Len(traj.timeIntervals) >= 2

\* C25: for a line with two time intervals or more, a render pass and
\* getVehiclePosition give the first coordinate and the first interval's
\* rotation when now (the time less the time offset) is before the first
\* interval, and the last coordinate when now is after the last one.
C25_OutsideTheIntervals ==
  [][/\ (tev'.op = "setCurrTime" /\ tev'.passes # <<>>) =>
          \A i \in DOMAIN tracker.trajectories :
            LET traj == tracker.trajectories[i]
                after == tracker'.trajectories[i]
                ti == traj.timeIntervals
                now == tev'.passes[1] - traj.timeOffset
            IN Polyline(traj) =>
                 /\ now < ti[1].time =>
                       /\ after.coordinate = {traj.geometry.coordinates[1]}
                       /\ after.rotation = ti[1].rotation
                 /\ now > ti[Len(ti)].time =>
                       after.coordinate = {traj.geometry.coordinates[Len(traj.geometry.coordinates)]}
     /\ (tev'.op = "getVehiclePosition" /\ ~tev'.deferred) =>
          \A i \in DOMAIN tracker.trajectories :
            LET traj == tracker.trajectories[i]
                ti == traj.timeIntervals
            IN (traj.id = tev'.id /\ Polyline(traj)) =>
                 /\ tev'.now < ti[1].time =>
                       /\ tev'.position.coord = {traj.geometry.coordinates[1]}
                       /\ tev'.position.rotation = ti[1].rotation
                 /\ tev'.now > ti[Len(ti)].time =>
                       tev'.position.coord = {traj.geometry.coordinates[Len(traj.geometry.coordinates)]}]_vars

\* A pass at time 10 has put a line whose first of three intervals starts
\* at 12 on its first coordinate.
C25_Witness ==
  /\ tev.op = "setCurrTime" /\ tev.passes = <<10>>
  /\ \E i \in DOMAIN tracker.trajectories :
       /\ Polyline(tracker.trajectories[i])
       /\ Len(tracker.trajectories[i].timeIntervals) = 3
       /\ tracker.trajectories[i].coordinate = {0}
       /\ tracker.trajectories[i].rotation = "r1"

\* C26: a trajectory with exactly one time interval gets a position in
\* every render pass, the same one as in the pass before, and is rendered
\* when the projector gives a pixel for it; getVehiclePosition gives it a
\* position for every now.
C26_OneIntervalIsAFixedPoint ==
  [][/\ (tev'.op = "setCurrTime" /\ tev'.passes # <<>>) =>
          \A i \in DOMAIN tracker.trajectories :
            LET traj == tracker.trajectories[i]
                after == tracker'.trajectories[i]
            IN Len(traj.timeIntervals) = 1 =>
                 /\ after.coordinate # {}
                 /\ traj.coordinate # {} => after.coordinate = traj.coordinate
                 /\ after.coordinate \subseteq tev'.extent =>
                       /\ after.rendered
                       /\ traj.id \in Range(tracker'.renderedTrajectories)
     /\ (tev'.op = "getVehiclePosition" /\ ~tev'.deferred) =>
          \A i \in DOMAIN tracker.trajectories :
            LET traj == tracker.trajectories[i]
            IN (traj.id = tev'.id /\ Len(traj.timeIntervals) = 1) =>
                 tev'.position.coord # {}]_vars

\* C27: after a render pass the rendered list holds exactly the stored
\* trajectories the filter kept and whose position of that pass the
\* projector gave a pixel for; the stored list keeps every trajectory.
C27_RenderedInThisPass ==
  [][(tev'.op = "setCurrTime" /\ tev'.passes # <<>>) =>
       /\ \A i \in DOMAIN tracker.trajectories :
            LET traj == tracker.trajectories[i]
                pos == TrackerPosition(tracker, traj, tev'.passes[1])
            IN traj.id \in Range(tracker'.renderedTrajectories)
                 <=> /\ tracker.filter # Undefined => ApplyFilter(tracker.filter, traj)
                     /\ pos.coord # {}
                     /\ pos.coord \subseteq tev'.extent
       /\ [i \in DOMAIN tracker'.trajectories |-> tracker'.trajectories[i].id]
            = [i \in DOMAIN tracker.trajectories |-> tracker.trajectories[i].id]]_vars

\* ------------------------------------------------------------ the scheduler
\* A line that moves while the wall clock runs
MovingLine ==
  Trajectory("v1", [type |-> "LineString", coordinates |-> <<0, FracUnit>>],
             <<TimeInterval(10, 0, "r1"), TimeInterval(14, FracUnit, "r2")>>, 0)

\* Starting and stopping: the layer from its construction on, its timer,
\* its animation frames and its visibility.
NextSched ==
  \/ LayerInits(0..8)
  \/ LayerTerminates
  \/ Starts(0..8)
  \/ Stops
  \/ \E visible \in BOOLEAN : VisibleChanges(visible, 0..8)
  \/ TimerTick(1, 0..8)
  \/ FrameRuns(0..8)
  \/ \E b \in BOOLEAN : SetUseRequestAnimationFrame(b)
  \/ (tracker.trajectories = <<>> /\ SetTrajectories(<<MovingLine>>))

SpecSched == Init /\ [][NextSched]_vars

\* C28: once stop() has run and until start() runs, the timer is not
\* armed, no animation frame is pending, no tick and no deferred pass runs
\* and the canvas is clear; start() runs one render pass itself.
C28_NothingScheduledAfterStop ==
  [][/\ tev'.stopped =>
          /\ ~layer'.interval
          /\ ~layer'.frame
          /\ tev'.op \notin {"tick", "frame"}
          /\ tracker'.exists => tracker'.canvas = {}
     /\ tev'.op = "start" => Len(tev'.passes) = 1]_vars

\* ----------------------------------------------------------- configuration
\* layer.filter = value, and the like
SetProperty(key, value) ==
  /\ value # ReadProperty(LayerState, key)
  /\ LCommit(WriteProperty(LayerState, key, value),
             [LEv("set") EXCEPT !.written[key] = value])

\* The values written: two functions, ids or ratios per property
ConfigValues == {"f1", "f2"}

\* The configuration written before and after the layer's initialization.
NextConfig ==
  \/ (~tracker.exists /\ LayerInits(0..8))
  \/ \E key \in ConfigKeys, value \in ConfigValues : SetProperty(key, value)

SpecConfig == Init /\ [][NextConfig]_vars

\* C29: the value last written to filter, sort, hoverVehicleId or
\* pixelRatio, before or after the initialization, is the value the
\* property reads back and, once there is a tracker, the tracker's.
C29_WrittenValueInEffect ==
  \A key \in ConfigKeys :
    tev.written[key] # "unwritten" =>
      /\ ReadProperty(LayerState, key) = tev.written[key]
      /\ tracker.exists => tracker[key] = tev.written[key]

\* ------------------------------------------------------------ click callbacks
ClickCallbacks == {"k1", "k2", "k3", "k4"}

\* layer.onClick(callback)
OnClick(callback) ==
  LCommit(LayerOnClick(LayerState, callback), [LEv("onClick") EXCEPT !.id = callback])

\* layer.unClick(callback)
UnClick(callback) ==
  LCommit(LayerUnClick(LayerState, callback), [LEv("unClick") EXCEPT !.id = callback])

NextClick ==
  \/ \E callback \in ClickCallbacks : OnClick(callback)
  \/ \E callback \in ClickCallbacks : UnClick(callback)

SpecClick == Init /\ [][NextClick]_vars

\* C30: onClick of a callback that is in the list leaves the list as it
\* is, onClick of any other callback puts it at the end, and the list
\* never holds a callback twice.
C30_OnClickIdempotent ==
  [][/\ tev'.op = "onClick" =>
          layer'.clickCallbacks =
            IF tev'.id \in Range(layer.clickCallbacks)
            THEN layer.clickCallbacks
            ELSE Append(layer.clickCallbacks, tev'.id)
     /\ \A i, j \in DOMAIN layer'.clickCallbacks :
          layer'.clickCallbacks[i] = layer'.clickCallbacks[j] => i = j]_vars

\* onClick was called with the callback registered first of two.
C30_Witness ==
  /\ tev.op = "onClick"
  /\ Len(layer.clickCallbacks) = 2
  /\ tev.id = layer.clickCallbacks[1]

\* ------------------------------------------- channels with an argument
\* The params the environment subscribes with: one channel name, without
\* argument and with two arguments
KeyParams == {[channel |-> "c1", args |-> a, id |-> Undefined] : a \in {"a", "b"}}

\* What unsubscribe is called with: a channelKey of KeyParams, or the
\* channel name alone
ChannelKeys == {"c1", "c1 a"}

\* wsApi.subscribe(params, cb, undefined, quiet)
SubscribeParams(params, cb, quiet) ==
  LET w == WsSubscribe(State, params, cb, quiet) IN
  /\ Bounded(w)
  /\ UNCHANGED clientClosed
  /\ unsubscribed' = unsubscribed \ {[channel |-> Key(params), cb |-> cb]}
  /\ Commit(w, [Ev("subscribe") EXCEPT !.channel = Key(params), !.cb = cb, !.quiet = quiet,
                                       !.nonQuietBefore = NonQuiet(subscriptions, params.channel),
                                       !.entryBefore = HasEntry(subscriptions, params.channel, cb)])

NextKeys ==
  \/ Open
  \/ SocketOpens
  \/ SocketCloses
  \/ \E p \in KeyParams, h \in Handlers : SubscribeParams(p, h, FALSE)
  \/ \E key \in ChannelKeys, h \in {"h1", NoCb} : Unsubscribe(key, h)

SpecKeys == Init /\ [][NextKeys]_vars

\* The subscription of cb to the channelKey is registered: its entry is in
\* the list, and its listener is on the socket when there is a socket that
\* can deliver.
Registered(subs, sock, key, cb) ==
  \E i \in DOMAIN subs :
    /\ Key(subs[i]) = key
    /\ subs[i].cb = cb
    /\ sock.rs \in {"CONNECTING", "OPEN"} => \E l \in sock.msgL : l.lid = subs[i].lid

\* C31: a registered subscription stays registered over every step that is
\* neither an unsubscribe of its own channelKey nor the client's close():
\* over subscribes and unsubscribes of another channelKey and over the
\* socket's close events.
C31_StaysRegistered ==
  [][\A key \in {Key(p) : p \in KeyParams}, cb \in Handlers :
       /\ Registered(subscriptions, websocket, key, cb)
       /\ ~(ev'.op = "unsubscribe" /\ ev'.channel = key)
       /\ ev'.op \notin {"close", "open", "reconnect"}
       => Registered(subscriptions', websocket', key, cb)]_vars

\* The entries of a channelKey
KeyEntries(subs, key) == {i \in DOMAIN subs : Key(subs[i]) = key}

\* C37: an unsubscribe that removes the last listeners of a channelKey
\* marked as subscribed, one of them not quiet, sends DEL for that
\* channelKey, the one SUB was sent with, and marks it as not subscribed.
C37_DelUsesTheKeyOfSub ==
  [][\A key \in {Key(p) : p \in KeyParams} :
       /\ ev'.op = "unsubscribe"
       /\ key \in subscribed
       /\ \E i \in KeyEntries(subscriptions, key) : ~subscriptions[i].quiet
       /\ KeyEntries(subscriptions', key) = {}
       => /\ Msg("DEL", key) \in Range(ev'.issued)
          /\ key \notin subscribed']_vars

\* ------------------------------------------------------- time fractions
\* Lines with two time intervals: usual ones, two with the same timestamp,
\* and a first timestamp of 0
EdgeIntervalLists ==
  {<<TimeInterval(12, 0, "r1"), TimeInterval(16, FracUnit, "r2")>>,
   <<TimeInterval(13, 0, "r1"), TimeInterval(13, FracUnit, "r2")>>,
   <<TimeInterval(0, 0, "r1"), TimeInterval(16, FracUnit, "r2")>>}

EdgeTrajectoryLists ==
  {<<Trajectory("v1", [type |-> "LineString", coordinates |-> <<0, FracUnit>>], ti, 0)>>
     : ti \in EdgeIntervalLists}

\* The layer inited, stopped and not live, its tracker given one line
InitFrac ==
  /\ InitApi
  /\ wallClock = 10
  /\ \E list \in EdgeTrajectoryLists :
       LET s == LayerStop(LayerInit([layer |-> NewLayer(10), tracker |-> NoTracker,
                                          wallClock |-> 10, passes |-> <<>>,
                                          threw |-> FALSE], {}))
       IN /\ layer = [s.layer EXCEPT !.live = FALSE]
          /\ tracker = [s.tracker EXCEPT !.trajectories = list]
  /\ tev = [NoTev EXCEPT !.lastReal = wallClock, !.stopped = TRUE]

NextFrac ==
  \/ \E time \in RenderTimes, extent \in Extents : SetCurrTime(time, extent)
  \/ \E now \in RenderTimes, b \in BOOLEAN : GetsVehiclePosition(1, now, b)

SpecFrac == InitFrac /\ [][NextFrac]_vars

\* The first time interval of a line that brackets now
Bracket(traj, now) ==
  LET ti == traj.timeIntervals
  IN {j \in 1..(Len(ti) - 1) :
        /\ ti[j].time <= now /\ now <= ti[j + 1].time
        /\ \A k \in 1..(j - 1) : ~(ti[k].time <= now /\ now <= ti[k + 1].time)}

\* The coordinate at an arc fraction that is a sample's
SampleCoordinate(traj, frac) ==
  traj.geometry.coordinates[1]
    + (frac * (traj.geometry.coordinates[Len(traj.geometry.coordinates)]
                 - traj.geometry.coordinates[1])) \div FracUnit

\* coord is one coordinate, between those of the two samples
Sampled(coord, traj, j) ==
  \E x \in coord :
    /\ coord = {x}
    /\ SampleCoordinate(traj, traj.timeIntervals[j].frac) <= x
    /\ x <= SampleCoordinate(traj, traj.timeIntervals[j + 1].frac)

\* C32: when a time interval of a line brackets now, a render pass with
\* interpolation uses a time fraction between 0 and 1 and puts the vehicle
\* on the line between the two samples of the interval, and
\* getVehiclePosition gives a coordinate between them.
C32_FractionsInRange ==
  [][/\ (tev'.op = "setCurrTime" /\ tev'.passes # <<>> /\ tracker.interpolate) =>
          \A i \in DOMAIN tracker.trajectories :
            LET traj == tracker.trajectories[i]
                after == tracker'.trajectories[i]
            IN Polyline(traj) =>
                 \A j \in Bracket(traj, tev'.passes[1] - traj.timeOffset) :
                   /\ after.endFraction \in 0..FracUnit
                   /\ Sampled(after.coordinate, traj, j)
     /\ (tev'.op = "getVehiclePosition" /\ ~tev'.deferred) =>
          \A i \in DOMAIN tracker.trajectories :
            LET traj == tracker.trajectories[i]
            IN (traj.id = tev'.id /\ Polyline(traj)) =>
                 \A j \in Bracket(traj, tev'.now) :
                   Sampled(tev'.position.coord, traj, j)]_vars

\* The trajectory is visible: the filter keeps it, it has a coordinate and
\* the projector gives it a pixel on the canvas
Visible(tr, traj, extent) ==
  /\ tr.filter # Undefined => ApplyFilter(tr.filter, traj)
  /\ \E c \in traj.coordinate :
       c \in extent /\ c >= 0 /\ c <= tr.width

\* C33: after a render pass every visible trajectory is painted on the
\* canvas at its pixel of this pass, whether or not the pixel changed
\* since the pass before.
C33_VisiblePaintedAfterPass ==
  [][(tev'.op = "setCurrTime" /\ tev'.passes # <<>>) =>
       \A i \in DOMAIN tracker'.trajectories :
         LET traj == tracker'.trajectories[i]
         IN Visible(tracker', traj, tev'.extent) =>
              \E c \in traj.coordinate : [id |-> traj.id, px |-> c] \in tracker'.canvas]_vars

\* ------------------------------------------------------ the timer's period
\* The zooms of the map, in halves of a level: -1, -0.5, 0.5, 10, 20.5, 21
Zooms == {-2, -1, 1, 20, 41, 42}

\* The map's zoom changes: its zoomend event, which onZoomEnd() listens to
\* between the layer's start() and stop()
ZoomEnd(zoom) ==
  /\ zoom # layer.zoom
  /\ LET s0 == [LayerState EXCEPT !.layer.zoom = zoom]
     IN LCommit(IF layer.zoomend THEN StartUpdateTime(s0) ELSE s0, LEv("zoomend"))

\* The timer from the layer's construction on: start, stop, visibility,
\* speed and zoom changes, and the timer's ticks
NextZoom ==
  \/ LayerInits(0..8)
  \/ LayerTerminates
  \/ Starts(0..8)
  \/ Stops
  \/ \E visible \in BOOLEAN : VisibleChanges(visible, 0..8)
  \/ \E sp \in Speeds : SetSpeed(sp, 0..8)
  \/ \E zoom \in Zooms : ZoomEnd(zoom)
  \/ TimerTick(1, 0..8)

SpecZoom == Init /\ [][NextZoom]_vars

\* The period p is not shorter than the period q
NotShorter(p, q) == p.num * q.den >= q.num * p.den

\* C34: the period of the armed timer is never below 25 ms, and a zoom
\* change to a coarser zoom at the same speed never arms a shorter period,
\* one to a finer zoom never a longer period.
C34_PeriodByZoom ==
  [][/\ \A k \in DOMAIN layer'.timers :
          layer'.timers[k].num >= MinRefreshMs * layer'.timers[k].den
     /\ (tev'.op = "zoomend" /\ layer.timers # <<>> /\ layer'.timers # <<>>) =>
          LET before == layer.timers[Len(layer.timers)]
              after == layer'.timers[Len(layer'.timers)]
          IN /\ layer'.zoom < layer.zoom => NotShorter(after, before)
             /\ layer'.zoom > layer.zoom => NotShorter(before, after)]_vars

\* C35: at most one timer is armed, and a zoom change while a timer is
\* armed leaves exactly one timer armed, with the period of the new zoom.
C35_OneTimerArmed ==
  [][/\ Len(layer'.timers) <= 1
     /\ (tev'.op = "zoomend" /\ layer.timers # <<>>) =>
          layer'.timers = <<GetRefreshTimeInMs(layer'.zoom, layer'.speed)>>]_vars

\* The zoom went from 10 to 21 while the timer was armed at speed 2: the
\* one timer armed has the period of 25 ms.
C35_Witness ==
  /\ tev.op = "zoomend"
  /\ layer.zoom = 42 /\ layer.speed = 2
  /\ layer.timers = <<[num |-> 50, den |-> 2]>>

\* ---------------------------------------------- the order of SUB and DEL
\* The SUBs and DELs of a channel among the messages transmitted
SubDel(wire, channel) ==
  SelectSeq(wire, LAMBDA m : m.verb \in {"SUB", "DEL"} /\ m.arg = channel)

\* The subscriptions that are not quiet, over the socket's life
NextOrder ==
  \/ Connection
  \/ \E c \in SubChannels, h \in Handlers : Subscribe(c, h, FALSE)
  \/ \E c \in SubChannels, h \in Handlers \cup {NoCb} : Unsubscribe(c, h)

SpecOrder == Init /\ [][NextOrder]_vars

\* C36: when the socket has opened and the pending messages are
\* transmitted, the last of the SUBs and DELs transmitted for a channel is
\* a SUB if a non-quiet listener is registered for it, and otherwise a DEL,
\* or there is none.
C36_LastOfSubDelMatchesRegistry ==
  ev.op = "socketOpen" =>
    \A c \in SubChannels :
      LET sd == SubDel(ev.wire, c)
      IN IF NonQuiet(subscriptions, c) > 0
         THEN sd # <<>> /\ sd[Len(sd)].verb = "SUB"
         ELSE sd = <<>> \/ sd[Len(sd)].verb = "DEL"

\* ------------------------------------------------- superseded sockets
\* C38: the close event of a socket that close() or a later open() has
\* replaced transmits nothing and leaves the queue of pending messages as
\* it is.
C38_SupersededSocketIsInert ==
  [][(ev'.op = "socketClose" /\ ev'.byClient) =>
       /\ ev'.wire = <<>>
       /\ messagesOnOpen' = messagesOnOpen]_vars

\* ------------------------------------------------------------ departures
StationIds == {"8503000", "8507000"}

\* The departure a timetable frame carries
TimetableContent ==
  [time |-> 500, arrival |-> 0, state |-> "PENDING", platform |-> "3", to |-> "A",
   line |-> "S1", cancelled |-> FALSE]

TimetableFrames ==
  {[form |-> "frame", source |-> "timetable_" \o id, content |-> <<>>, body |-> "data",
    client_reference |-> Undefined] : id \in StationIds}

\* api.subscribeDepartures(stationId, sortByMinArrivalTime, onMessage)
SubscribeDepartures(stationId, sortByMinArrivalTime) ==
  LET w == RtSubscribeDepartures(State, stationId, sortByMinArrivalTime) IN
  /\ Bounded(w)
  /\ UNCHANGED <<clientClosed, unsubscribed>>
  /\ Commit(w, [Ev("subscribeDepartures") EXCEPT
                  !.channel = "timetable_" \o stationId,
                  !.sortByMinArrivalTime = sortByMinArrivalTime])

\* api.unsubscribeDepartures()
UnsubscribeDepartures ==
  LET w == RtUnsubscribeDepartures(State) IN
  /\ Bounded(w)
  /\ UNCHANGED <<clientClosed, unsubscribed>>
  /\ Commit(w, Ev("unsubscribeDepartures"))

\* A timetable frame arrives on the open socket: the message listeners
\* call the callbacks of subscribeDepartures registered for its channel
TimetableArrives(frame) ==
  LET delivered == OnMessage(State, frame)
      called == {d \in delivered : d.cb \in {DeparturesCallback(b) : b \in BOOLEAN}}
      w0 == WithCallbacks(DispatchMessage(
                [State EXCEPT !.threw = Throws(frame) /\ websocket.msgL # {}],
                websocket.reqL, frame, 1), frame)
      w == IF called = {} THEN w0
           ELSE DeparturesOnMessage(w0, TimetableContent,
                                    \E d \in called : d.cb = DeparturesCallback(TRUE))
  IN
  /\ IsOpen(State)
  /\ UNCHANGED <<clientClosed, unsubscribed>>
  /\ Commit(w, [Ev("message") EXCEPT !.frame = frame, !.delivered = delivered])

\* The timer set by the message callback of subscribeDepartures elapses,
\* 100 ms after the last frame: filterDepartures, then onMessage(departures)
DepartureUpdateTimeoutFires ==
  LET r == FilterDepartures(departureObject, departureUpdateTimeout.sortByMinArrivalTime) IN
  /\ departureUpdateTimeout.armed
  /\ UNCHANGED <<clientClosed, unsubscribed>>
  /\ Commit([State EXCEPT !.departureObject = r.depObject,
                          !.departureArray = r.departureArray,
                          !.departureUpdateTimeout.armed = FALSE,
                          !.calls = <<"onMessage">>],
            [Ev("departureUpdate") EXCEPT
               !.sortByMinArrivalTime = departureUpdateTimeout.sortByMinArrivalTime,
               !.ids = r.ids])

\* The departures of a station on the first socket
NextDepartures ==
  \/ (IsNull(State) /\ Open)
  \/ SocketOpens
  \/ \E id \in StationIds, b \in BOOLEAN : SubscribeDepartures(id, b)
  \/ UnsubscribeDepartures
  \/ \E f \in TimetableFrames : TimetableArrives(f)
  \/ DepartureUpdateTimeoutFires

SpecDepartures == Init /\ [][NextDepartures]_vars

\* C39: onMessage is called with departures only while departures are
\* subscribed: never after unsubscribeDepartures() and before the next
\* subscribeDepartures().
C39_NoUpdateAfterUnsubscribe ==
  [][ev'.op = "departureUpdate" => subscribedStationUic # Undefined]_vars

\* --------------------------------------------- requests on a failing socket
\* C40: when the socket closes with one-shot requests pending, no exception
\* is raised, every request that has an error callback has it called
\* exactly once, and no request and no request listener is left.
C40_FailureSettlesRequests ==
  [][(ev'.op = "socketClose" /\ ev'.current /\ requests # <<>>) =>
       /\ ~ev'.threw
       /\ \A i \in DOMAIN requests :
            requests[i].errorCb # NoCb =>
              Count(ev'.errCalls, requests[i].errorCb)
                = Cardinality({j \in DOMAIN requests : requests[j].errorCb = requests[i].errorCb})
       /\ requests' = <<>>
       /\ websocket'.reqL = <<>> /\ websocket'.errL = <<>>]_vars
====
